---------------------------- MODULE Spec2Model ----------------------------
(***************************************************************************)
(* Model of the record codec of code_serializer:                          *)
(*   include/serialize.h   class Serializer (bit stream)                  *)
(*   include/record.h      ValueLink and the field classes                *)
(*   src/record.cpp        the per-class serializers                      *)
(*                                                                         *)
(* A machine integer is modelled by the set of the positions of its 1     *)
(* bits (bit 0 is the least significant one), so that 32 and 64 bit       *)
(* values keep their width: 5 is {0, 2}, 0 is {}, uint64_t(-1) is 0..63.  *)
(***************************************************************************)
EXTENDS Integers, Sequences, FiniteSets, TLC

VARIABLES
  ser,      \* the Serializer: [buffer_, bufferSize_, bitPos_]
  recs,     \* the records: record name -> ValueLink::list_ (sequence of fields)
  build,    \* how this build evaluates an over-wide shift (undefined behaviour)
  pc,       \* the position of the driver (src/main.cpp, tests/main_test.cpp)
  nops,     \* the number of stream calls the stream driver has made
  log,      \* the calls of the write pass of the stream driver, in order
  arrays,   \* the bit-field arrays: [w: written, r: read into, num: reader's num]
  wire,     \* history: the payload last written by a record-level serialize
  last      \* history: the last operation, its inputs, result and pre-state

vars == <<ser, recs, build, pc, nops, log, arrays, wire, last>>

-----------------------------------------------------------------------------
(* Bounds of the model *)

\* number of 64 bit words of the small stream buffers
MaxWords == 2

\* number of calls the stream driver makes on one Serializer
MaxOps == 3

-----------------------------------------------------------------------------
(* Machine integers as sets of bit positions *)

ByteBits == 8
WordBytes == 8
WordBits == WordBytes * ByteBits
BaseBits == 2
SizeBits == 6

BBZero == {}
BBOne == {0}
BBVersion == {1}
BBOther == {0, 1}

\* the bits of a small natural number
ToBits(n) == {i \in 0..30 : (n \div (2^i)) % 2 = 1}

\* the element of a one-element set: Only({ e : r \in {v} }) is e with r
\* bound to v
Only(S) == CHOOSE x \in S : TRUE

\* the value of a bit set that fits 30 bits
RECURSIVE ToNat(_)
ToNat(b) ==
  IF b = {} THEN 0
  ELSE LET i == CHOOSE x \in b : TRUE IN 2^i + ToNat(b \ {i})

\* value << k and value >> k on 64 bit registers, 0 <= k <= 63
Shl(v, k) == {i + k : i \in {j \in v : j + k < WordBits}}
Shr(v, k) == {i - k : i \in {j \in v : j >= k}}
Not64(v) == (0..(WordBits - 1)) \ v

\* conversion to a narrower unsigned type, and int -> int64_t (sign extension)
Trunc(v, w) == {i \in v : i < w}
SignExtend(v, w) == IF (w - 1) \in v THEN Trunc(v, w) \cup (w..(WordBits - 1)) ELSE Trunc(v, w)

\* the carry into bit i of a + b: some lower position generates a carry and
\* every position between it and i propagates it
Carry(a, b, i) ==
  \E j \in a \cap b :
    j < i /\ \A k \in (j + 1)..(i - 1) : k \in a \/ k \in b

\* 64 bit wrapping arithmetic
Add64(a, b) == {i \in 0..(WordBits - 1) : ((i \in a) # (i \in b)) # Carry(a, b, i)}
Neg64(a) == Add64(Not64(a), {0})
Sub64(a, b) == Add64(a, Neg64(b))
IsNeg64(a) == (WordBits - 1) \in a

\* The builds differ on a shift by at least the width of the operand
\* (undefined behaviour): "wrap" takes the count modulo the width (the
\* shift instruction of x86-64 and AArch64), "zero" shifts everything out.
Builds == {"wrap", "zero"}

\* (1ULL << bits) - 1ULL
Mask64(bits, b) ==
  IF bits < WordBits THEN 0..(bits - 1)
  ELSE IF b = "wrap" THEN {} ELSE 0..(WordBits - 1)

\* (1 << n) of type int, converted to int64_t
IntShl1(n, b) ==
  IF n < 32 THEN SignExtend({n}, 32)
  ELSE IF b = "wrap" THEN SignExtend({n % 32}, 32) ELSE {}

\* ~(1 << n) of type int, converted to int64_t
IntNotShl1(n, b) == Not64(IntShl1(n, b))

-----------------------------------------------------------------------------
(* class Serializer, include/serialize.h *)

\* Serializer(n): n bytes rounded up to whole words, zero filled
Serializer(n) ==
  LET words == (n + WordBytes - 1) \div WordBytes
  IN [buffer_ |-> [w \in 1..words |-> {}],
      bufferSize_ |-> words * WordBits,
      bitPos_ |-> 0]

tell(s) == s.bitPos_
seek(s, pos) == [s EXCEPT !.bitPos_ = pos]
reset(s) == [s EXCEPT !.bitPos_ = 0]

writeBits64(s, value, bits, b) ==
  IF s.bitPos_ + bits > s.bufferSize_
  THEN [ok |-> FALSE, s |-> s]
  ELSE
    LET bitIndex == s.bitPos_ % WordBits
        ptr == (s.bitPos_ \div WordBits) + 1
    IN IF bitIndex + bits <= WordBits
       THEN \* single
         LET mask == Mask64(bits, b)
             w1 == (s.buffer_[ptr] \ Shl(mask, bitIndex))
                     \cup Shl(value \cap mask, bitIndex)
         IN [ok |-> TRUE,
             s |-> [s EXCEPT !.buffer_[ptr] = w1,
                             !.bitPos_ = s.bitPos_ + bits]]
       ELSE \* double
         LET bits1 == WordBits - bitIndex
             bits2 == bits - bits1
             mask1 == Mask64(bits1, b)
             mask2 == Mask64(bits2, b)
             w1 == (s.buffer_[ptr] \ Shl(mask1, bitIndex))
                     \cup Shl(value \cap mask1, bitIndex)
             w2 == (s.buffer_[ptr + 1] \ mask2)
                     \cup (Shr(value, bits1) \cap mask2)
         IN [ok |-> TRUE,
             s |-> [s EXCEPT !.buffer_[ptr] = w1,
                             !.buffer_[ptr + 1] = w2,
                             !.bitPos_ = s.bitPos_ + bits]]

\* writeBits<NumType>: value is NumType converted to 64 bits (sign extended
\* when NumType is signed)
writeBits(s, signed, value, bits, b) ==
  IF s.bitPos_ + bits > s.bufferSize_
  THEN [ok |-> FALSE, s |-> s]
  ELSE
    LET v == IF signed
             THEN IF IsNeg64(value)
                  THEN Neg64(value) \cup IntShl1(bits - 1, b)
                  ELSE value \cap IntNotShl1(bits - 1, b)
             ELSE value
    IN writeBits64(s, v, bits, b)

readBits64(s, bits, b) ==
  IF s.bitPos_ + bits > s.bufferSize_
  THEN [ok |-> FALSE, s |-> s, value |-> {}]
  ELSE
    LET bitIndex == s.bitPos_ % WordBits
        ptr == (s.bitPos_ \div WordBits) + 1
    IN IF bitIndex + bits <= WordBits
       THEN \* single
         LET mask == Mask64(bits, b)
         IN [ok |-> TRUE,
             s |-> [s EXCEPT !.bitPos_ = s.bitPos_ + bits],
             value |-> Shr(s.buffer_[ptr], bitIndex) \cap mask]
       ELSE \* double
         LET bits1 == WordBits - bitIndex
             bits2 == bits - bits1
             mask1 == Mask64(bits1, b)
             mask2 == Mask64(bits2, b)
         IN [ok |-> TRUE,
             s |-> [s EXCEPT !.bitPos_ = s.bitPos_ + bits],
             value |-> (Shr(s.buffer_[ptr], bitIndex) \cap mask1)
                         \cup Shl(s.buffer_[ptr + 1] \cap mask2, bits1)]

\* variant: a read that does not fit still moves the cursor
readBits_Advance(s, signed, tw, bits, b) ==
  Only({
     IF r.ok
     THEN LET v0 == IF signed THEN SignExtend(r.value, tw) ELSE Trunc(r.value, tw)
              mask == IntShl1(bits - 1, b)
              v == IF signed /\ (v0 \cap mask) # {}
                   THEN Neg64(v0 \cap IntNotShl1(bits - 1, b))
                   ELSE v0
          IN [ok |-> TRUE, s |-> r.s, value |-> v]
     ELSE [ok |-> FALSE, s |-> [r.s EXCEPT !.bitPos_ = r.s.bitPos_ + bits], value |-> {}]
    : r \in {readBits64(s, bits, b)} })
\* readBits<NumType>: tw is the width of NumType; on failure value is left
\* as the caller had it, which the callers below never read
readBits(s, signed, tw, bits, b) ==
  Only({
     IF r.ok
     THEN LET v0 == IF signed THEN SignExtend(r.value, tw) ELSE Trunc(r.value, tw)
              mask == IntShl1(bits - 1, b)
              v == IF signed /\ (v0 \cap mask) # {}
                   THEN Neg64(v0 \cap IntNotShl1(bits - 1, b))
                   ELSE v0
          IN [ok |-> TRUE, s |-> r.s, value |-> v]
     ELSE [ok |-> FALSE, s |-> r.s, value |-> {}]
    : r \in {readBits64(s, bits, b)} })

writeBool(s, value, b) == writeBits(s, FALSE, IF value THEN {0} ELSE {}, 1, b)

readBool(s, b) ==
  Only({
     [ok |-> r.ok, s |-> r.s, value |-> r.value # {}]
    : r \in {readBits(s, FALSE, 8, 1, b)} })

writeByte(s, value, b) == writeBits64(s, value, ByteBits, b)

readByte(s, b) ==
  Only({
     [ok |-> r.ok, s |-> r.s, value |-> Trunc(r.value, 8)]
    : r \in {readBits64(s, ByteBits, b)} })

alignByte(s) ==
  [s EXCEPT !.bitPos_ = ((s.bitPos_ + ByteBits - 1) \div ByteBits) * ByteBits]

padToNext(s, b) ==
  LET rem == s.bitPos_ % ByteBits
  IN IF rem # 0 THEN writeBits(s, FALSE, {}, ByteBits - rem, b).s ELSE s

\* terminate(mark): the result of writeBits is dropped
terminate(s, mark, b) == writeBits(s, FALSE, mark, 4 * ByteBits, b).s

-----------------------------------------------------------------------------
(* The field classes, include/record.h and src/record.cpp.                *)
(* A field is [kind, signed, size, val]: size is sizeof(NType); val is    *)
(* val_ (Bool, String: a sequence of bytes), num_ (Value, Bits: the bits  *)
(* of the NType) or array_ (Array: a sequence of such).                   *)

ValueVersion == [kind |-> "Version", signed |-> FALSE, size |-> 0, val |-> FALSE]
ValueBool(init) == [kind |-> "Bool", signed |-> FALSE, size |-> 0, val |-> init]
ValueString(init) == [kind |-> "String", signed |-> FALSE, size |-> 0, val |-> init]
Value(signed, size, num) == [kind |-> "Value", signed |-> signed, size |-> size, val |-> num]
ValueBits(signed, size, num) == [kind |-> "Bits", signed |-> signed, size |-> size, val |-> num]
ValueArray(signed, size, array) == [kind |-> "Array", signed |-> signed, size |-> size, val |-> array]

isSeparator(f) == f.kind = "Version"
isBool(f) == f.kind = "Bool"

\* NType -> IntType / UIntType
Widen(f, num) == IF f.signed THEN SignExtend(num, f.size * ByteBits) ELSE num

\* dynamic_cast<const Value<NType> *>(&other); ValueBits<NType> is a Value<NType>
IsValueOf(f, other) ==
  other.kind \in {"Value", "Bits"} /\ other.signed = f.signed /\ other.size = f.size

\* dynamic_cast<const ValueArray<NType, Size> *>(&other)
IsArrayOf(f, other) ==
  other.kind = "Array" /\ other.signed = f.signed /\ other.size = f.size
    /\ Len(other.val) = Len(f.val)

\* oval->num_ - num_ as the C++ expression evaluates it: in int for the
\* types narrower than int (exact), in NType for 32 and 64 bits (wrapping,
\* as the subtract instruction does for the signed ones)
DiffOf(f, onum, num) ==
  LET d == Sub64(Widen(f, onum), Widen(f, num))
  IN IF f.size = 4
     THEN (IF f.signed THEN SignExtend(d, 32) ELSE Trunc(d, 32))
     ELSE d

(* version separator *)
ValueVersion_serialize(f, s, b) == writeBits(s, FALSE, BBVersion, BaseBits, b)

ValueVersion_serializeDiff(f, other, s, b) == ValueVersion_serialize(f, s, b)

ValueVersion_deserialize(f, s, b) ==
  Only({
     [ok |-> r.ok /\ r.value = BBVersion, s |-> r.s, f |-> f]
    : r \in {readBits(s, FALSE, 32, BaseBits, b)} })

ValueVersion_deserializeDiff(f, s, b) == ValueVersion_deserialize(f, s, b)

(* boolean *)
\* writeBits<int>(val_ ? 1 : 0, BaseBits)
ValueBool_serialize(f, s, b) ==
  writeBits(s, TRUE, IF f.val THEN {0} ELSE {}, BaseBits, b)

ValueBool_serializeDiff(f, other, s, b) == ValueBool_serialize(f, s, b)

ValueBool_deserialize(f, s, b) ==
  Only({
     IF r.ok /\ r.value = {} THEN [ok |-> TRUE, s |-> r.s, f |-> [f EXCEPT !.val = FALSE]]
     ELSE IF r.ok /\ r.value = {0} THEN [ok |-> TRUE, s |-> r.s, f |-> [f EXCEPT !.val = TRUE]]
     ELSE [ok |-> FALSE, s |-> r.s, f |-> f]
    : r \in {readBits(s, FALSE, 32, BaseBits, b)} })

ValueBool_deserializeDiff(f, s, b) == ValueBool_deserialize(f, s, b)

(* string *)
\* for (auto byte : val_) writeByte(byte), from byte i on; the loop is
\* evaluated as its first half followed, when that succeeded, by the rest
RECURSIVE WriteBytes(_, _, _, _)
WriteBytes(s, val, i, b) ==
  IF i > Len(val) THEN [ok |-> TRUE, s |-> s]
  ELSE IF i = Len(val) THEN writeByte(s, ToBits(val[i]), b)
  ELSE Only({
          IF ~r.ok THEN [ok |-> FALSE, s |-> r.s]
          ELSE WriteBytes(r.s, val, (i + Len(val)) \div 2 + 1, b)
    : r \in {WriteBytes(s, SubSeq(val, 1, (i + Len(val)) \div 2), i, b)} })

ValueString_serialize(f, s, b) ==
  Only({
     IF ~r1.ok THEN [ok |-> FALSE, s |-> r1.s]
     ELSE
       LET len == Len(f.val) IN
       Only({
          IF ~r2.ok THEN [ok |-> FALSE, s |-> r2.s]
          ELSE IF len = 0 THEN [ok |-> TRUE, s |-> r2.s]
          ELSE WriteBytes(padToNext(r2.s, b), f.val, 1, b)
    : r2 \in {writeBits(r1.s, FALSE, ToBits(len), SizeBits, b)} })
    : r1 \in {writeBits(s, FALSE, BBOther, BaseBits, b)} })

\* variant: the string is written in full whether it changed or not
ValueString_serializeDiff_Full(f, other, s, b) ==
  IF other.kind = "String"
  THEN ValueString_serialize(f, s, b)
  ELSE [ok |-> FALSE, s |-> s]
ValueString_serializeDiff(f, other, s, b) ==
  IF other.kind = "String"
  THEN IF f.val = other.val
       THEN writeBits(s, FALSE, BBZero, BaseBits, b)
       ELSE ValueString_serialize(f, s, b)
  ELSE [ok |-> FALSE, s |-> s]

\* the loop of deserialize: val_ grows by one byte per pass
\* (the passes i .. bytes - 1 are evaluated as their first half followed,
\* when that succeeded, by the rest)
RECURSIVE ReadBytes(_, _, _, _, _)
ReadBytes(s, f, i, bytes, b) ==
  IF i >= bytes THEN [ok |-> TRUE, s |-> s, f |-> f]
  ELSE IF i + 1 = bytes
  THEN Only({
          IF ~r.ok THEN [ok |-> FALSE, s |-> r.s, f |-> f]
          ELSE [ok |-> TRUE, s |-> r.s, f |-> [f EXCEPT !.val = Append(f.val, ToNat(r.value))]]
    : r \in {readByte(s, b)} })
  ELSE Only({
          IF ~r.ok THEN r
          ELSE ReadBytes(r.s, r.f, (i + bytes) \div 2, bytes, b)
    : r \in {ReadBytes(s, f, i, (i + bytes) \div 2, b)} })

\* deserialize from the size field on
\* variant: the bytes are read where the size field ends, with no alignByte
ReadStringBody_NoAlign(f, s, b) ==
  Only({
     IF ~r2.ok THEN [ok |-> FALSE, s |-> r2.s, f |-> f]
     ELSE
       LET bytes == ToNat(r2.value)
           f0 == [f EXCEPT !.val = <<>>]
       IN IF bytes = 0 THEN [ok |-> TRUE, s |-> r2.s, f |-> f0]
          ELSE ReadBytes(r2.s, f0, 0, bytes, b)
    : r2 \in {readBits(s, FALSE, 64, SizeBits, b)} })
ReadStringBody(f, s, b) ==
  Only({
     IF ~r2.ok THEN [ok |-> FALSE, s |-> r2.s, f |-> f]
     ELSE
       LET bytes == ToNat(r2.value)
           f0 == [f EXCEPT !.val = <<>>]
       IN IF bytes = 0 THEN [ok |-> TRUE, s |-> r2.s, f |-> f0]
          ELSE ReadBytes(alignByte(r2.s), f0, 0, bytes, b)
    : r2 \in {readBits(s, FALSE, 64, SizeBits, b)} })

ValueString_deserialize(f, s, b) ==
  Only({
     IF ~r1.ok THEN [ok |-> FALSE, s |-> r1.s, f |-> f]
     ELSE IF r1.value # BBOther THEN [ok |-> FALSE, s |-> r1.s, f |-> f]
     ELSE ReadStringBody(f, r1.s, b)
    : r1 \in {readBits(s, FALSE, 32, BaseBits, b)} })

ValueString_deserializeDiff(f, s, b) ==
  Only({
     IF ~r1.ok THEN [ok |-> FALSE, s |-> r1.s, f |-> f]
     ELSE IF r1.value = BBZero THEN [ok |-> TRUE, s |-> r1.s, f |-> f]
     ELSE IF r1.value # BBOther THEN [ok |-> FALSE, s |-> r1.s, f |-> f]
     ELSE ReadStringBody(f, r1.s, b)
    : r1 \in {readBits(s, FALSE, 32, BaseBits, b)} })

(* number *)
writeNumberImpl(s, signed, num, bits, b) ==
  IF num = {} THEN writeBits(s, FALSE, BBZero, BaseBits, b)
  ELSE
    Only({
       IF ~r1.ok THEN [ok |-> FALSE, s |-> r1.s]
       ELSE
         Only({
            IF ~r2.ok THEN [ok |-> FALSE, s |-> r2.s]
            ELSE writeBits(r2.s, signed, num, bits, b)
    : r2 \in {writeBits(r1.s, FALSE, ToBits(bits), SizeBits, b)} })
    : r1 \in {writeBits(s, FALSE, BBOther, BaseBits, b)} })

\* value is num on success
readNumberImpl(s, signed, b) ==
  Only({
     IF ~r1.ok THEN [ok |-> FALSE, s |-> r1.s, value |-> {}]
     ELSE IF r1.value = {} THEN [ok |-> TRUE, s |-> r1.s, value |-> {}]
     ELSE IF r1.value # BBOther THEN [ok |-> FALSE, s |-> r1.s, value |-> {}]
     ELSE
       Only({
          IF ~r2.ok THEN [ok |-> FALSE, s |-> r2.s, value |-> {}]
          ELSE IF r2.value = {} THEN [ok |-> FALSE, s |-> r2.s, value |-> {}]
          ELSE readBits(r2.s, signed, 64, ToNat(r2.value), b)
    : r2 \in {readBits(r1.s, FALSE, 64, SizeBits, b)} })
    : r1 \in {readBits(s, FALSE, 64, BaseBits, b)} })

Value_serialize(f, s, b) ==
  writeNumberImpl(s, f.signed, Widen(f, f.val), f.size * ByteBits, b)

Value_serializeDiff(f, other, s, b) ==
  IF IsValueOf(f, other)
  THEN writeNumberImpl(s, f.signed, DiffOf(f, other.val, f.val), f.size * ByteBits, b)
  ELSE [ok |-> FALSE, s |-> s]

Value_deserialize(f, s, b) ==
  Only({
     IF r.ok
     THEN [ok |-> TRUE, s |-> r.s, f |-> [f EXCEPT !.val = Trunc(r.value, f.size * ByteBits)]]
     ELSE [ok |-> FALSE, s |-> r.s, f |-> f]
    : r \in {readNumberImpl(s, f.signed, b)} })

Value_deserializeDiff(f, s, b) ==
  Only({
     IF r.ok
     THEN [ok |-> TRUE, s |-> r.s,
           f |-> [f EXCEPT !.val = Trunc(Add64(Widen(f, f.val), r.value), f.size * ByteBits)]]
     ELSE [ok |-> FALSE, s |-> r.s, f |-> f]
    : r \in {readNumberImpl(s, f.signed, b)} })

(* array numbers *)
writeArrayHeader(s, num, b) ==
  Only({
     IF ~r1.ok THEN [ok |-> FALSE, s |-> r1.s]
     ELSE
       Only({
          IF ~r2.ok THEN [ok |-> FALSE, s |-> r2.s]
          ELSE writeBits(r2.s, FALSE, ToBits(num), ByteBits, b)
    : r2 \in {writeBits(r1.s, TRUE, {}, SizeBits, b)} })
    : r1 \in {writeBits(s, FALSE, BBOther, BaseBits, b)} })

\* value is num on success
readArrayHeader(s, b) ==
  Only({
     IF ~r1.ok THEN [ok |-> FALSE, s |-> r1.s, value |-> 0]
     ELSE IF r1.value # BBOther THEN [ok |-> FALSE, s |-> r1.s, value |-> 0]
     ELSE
       Only({
          IF ~r2.ok THEN [ok |-> FALSE, s |-> r2.s, value |-> 0]
          ELSE IF r2.value # {} THEN [ok |-> FALSE, s |-> r2.s, value |-> 0]
          ELSE Only({
                  [ok |-> r3.ok, s |-> r3.s, value |-> ToNat(r3.value)]
    : r3 \in {readBits(r2.s, FALSE, 64, ByteBits, b)} })
    : r2 \in {readBits(r1.s, FALSE, 64, SizeBits, b)} })
    : r1 \in {readBits(s, FALSE, 64, BaseBits, b)} })

\* num < (1 << k), num unsigned, and anum < (1 << k), anum signed
BelowU(num, k) == num \subseteq 0..(k - 1)
BelowS(anum, k) == IsNeg64(anum) \/ anum \subseteq 0..(k - 1)

\* the 2 bit tag, then the payload
WriteTagged(s, signed, tag, num, bits, b) ==
  Only({
     IF r.ok THEN writeBits(r.s, signed, num, bits, b)
     ELSE [ok |-> FALSE, s |-> r.s]
    : r \in {writeBits(s, FALSE, tag, 2, b)} })

\* writeArrayValue(Serializer &, UIntType)
writeArrayValueU(s, num, b) ==
  IF BelowU(num, 6) THEN WriteTagged(s, FALSE, {}, num, 6, b)
  ELSE IF BelowU(num, 14) THEN WriteTagged(s, FALSE, {0}, num, 14, b)
  ELSE IF BelowU(num, 30) THEN WriteTagged(s, FALSE, {1}, num, 30, b)
  ELSE WriteTagged(s, FALSE, {0, 1}, num, 62, b)

\* writeArrayValue(Serializer &, IntType)
writeArrayValueS(s, num, b) ==
  LET anum == IF IsNeg64(num) THEN Neg64(num) ELSE num
  IN IF BelowS(anum, 5) THEN WriteTagged(s, TRUE, {}, num, 6, b)
     ELSE IF BelowS(anum, 13) THEN WriteTagged(s, TRUE, {0}, num, 14, b)
     ELSE IF BelowS(anum, 29) THEN WriteTagged(s, TRUE, {1}, num, 30, b)
     ELSE WriteTagged(s, TRUE, {0, 1}, num, 62, b)

writeArrayValue(s, signed, num, b) ==
  IF signed THEN writeArrayValueS(s, num, b) ELSE writeArrayValueU(s, num, b)

readArrayNumber(s, signed, b) ==
  Only({
     IF ~r.ok THEN [ok |-> FALSE, s |-> r.s, value |-> {}]
     ELSE IF r.value = {} THEN readBits(r.s, signed, 64, 6, b)
     ELSE IF r.value = {0} THEN readBits(r.s, signed, 64, 14, b)
     ELSE IF r.value = {1} THEN readBits(r.s, signed, 64, 30, b)
     ELSE readBits(r.s, signed, 64, 62, b)
    : r \in {readBits(s, FALSE, 64, 2, b)} })

readArrayValue(s, signed, b) == readArrayNumber(s, signed, b)

\* the element loops of ValueArray over the items i..Len(f.val), split in
\* halves; other is <<>> for serialize
RECURSIVE WriteItems(_, _, _, _, _)
WriteItems(s, f, other, i, b) ==
  IF i > Len(f.val) THEN [ok |-> TRUE, s |-> s]
  ELSE IF i = Len(f.val)
  THEN writeArrayValue(s, f.signed,
                       IF other = <<>> THEN Widen(f, f.val[i])
                       ELSE DiffOf(f, other[i], f.val[i]), b)
  ELSE Only({
          IF ~r.ok THEN [ok |-> FALSE, s |-> r.s]
          ELSE WriteItems(r.s, f, other, (i + Len(f.val)) \div 2 + 1, b)
    : r \in {WriteItems(s, [f EXCEPT !.val = SubSeq(f.val, 1, (i + Len(f.val)) \div 2)],
                        other, i, b)} })

RECURSIVE ReadItems(_, _, _, _, _)
ReadItems(s, f, i, diff, b) ==
  IF i > Len(f.val) THEN [ok |-> TRUE, s |-> s, f |-> f]
  ELSE IF i = Len(f.val)
  THEN Only({
          LET item == IF diff THEN Add64(Widen(f, f.val[i]), r.value) ELSE r.value IN
          IF ~r.ok THEN [ok |-> FALSE, s |-> r.s, f |-> f]
          ELSE [ok |-> TRUE, s |-> r.s,
                f |-> [f EXCEPT !.val[i] = Trunc(item, f.size * ByteBits)]]
    : r \in {readArrayValue(s, f.signed, b)} })
  ELSE Only({
          LET g == [f EXCEPT !.val = r.f.val
                       \o SubSeq(f.val, (i + Len(f.val)) \div 2 + 1, Len(f.val))] IN
          IF ~r.ok THEN [ok |-> FALSE, s |-> r.s, f |-> g]
          ELSE ReadItems(r.s, g, (i + Len(f.val)) \div 2 + 1, diff, b)
    : r \in {ReadItems(s, [f EXCEPT !.val = SubSeq(f.val, 1, (i + Len(f.val)) \div 2)],
                       i, diff, b)} })

ValueArray_serialize(f, s, b) ==
  Only({
     IF ~r.ok THEN [ok |-> FALSE, s |-> r.s]
     ELSE WriteItems(r.s, f, <<>>, 1, b)
    : r \in {writeArrayHeader(s, Len(f.val), b)} })

ValueArray_serializeDiff(f, other, s, b) ==
  IF ~IsArrayOf(f, other) THEN [ok |-> FALSE, s |-> s]
  ELSE
    Only({
       IF ~r.ok THEN [ok |-> FALSE, s |-> r.s]
       ELSE WriteItems(r.s, f, other.val, 1, b)
    : r \in {writeArrayHeader(s, Len(f.val), b)} })

ValueArray_deserialize(f, s, b) ==
  Only({
     IF ~r.ok THEN [ok |-> FALSE, s |-> r.s, f |-> f]
     ELSE IF r.value # Len(f.val) THEN [ok |-> FALSE, s |-> r.s, f |-> f]
     ELSE ReadItems(r.s, f, 1, FALSE, b)
    : r \in {readArrayHeader(s, b)} })

ValueArray_deserializeDiff(f, s, b) ==
  Only({
     IF ~r.ok THEN [ok |-> FALSE, s |-> r.s, f |-> f]
     ELSE IF r.value # Len(f.val) THEN [ok |-> FALSE, s |-> r.s, f |-> f]
     ELSE ReadItems(r.s, f, 1, TRUE, b)
    : r \in {readArrayHeader(s, b)} })

(* virtual dispatch on the field class *)
Field_serialize(f, s, b) ==
  CASE f.kind = "Version" -> ValueVersion_serialize(f, s, b)
    [] f.kind = "Bool" -> ValueBool_serialize(f, s, b)
    [] f.kind = "String" -> ValueString_serialize(f, s, b)
    [] f.kind = "Array" -> ValueArray_serialize(f, s, b)
    [] OTHER -> Value_serialize(f, s, b)

Field_serializeDiff(f, other, s, b) ==
  CASE f.kind = "Version" -> ValueVersion_serializeDiff(f, other, s, b)
    [] f.kind = "Bool" -> ValueBool_serializeDiff(f, other, s, b)
    [] f.kind = "String" -> ValueString_serializeDiff(f, other, s, b)
    [] f.kind = "Array" -> ValueArray_serializeDiff(f, other, s, b)
    [] OTHER -> Value_serializeDiff(f, other, s, b)

Field_deserialize(f, s, b) ==
  CASE f.kind = "Version" -> ValueVersion_deserialize(f, s, b)
    [] f.kind = "Bool" -> ValueBool_deserialize(f, s, b)
    [] f.kind = "String" -> ValueString_deserialize(f, s, b)
    [] f.kind = "Array" -> ValueArray_deserialize(f, s, b)
    [] OTHER -> Value_deserialize(f, s, b)

Field_deserializeDiff(f, s, b) ==
  CASE f.kind = "Version" -> ValueVersion_deserializeDiff(f, s, b)
    [] f.kind = "Bool" -> ValueBool_deserializeDiff(f, s, b)
    [] f.kind = "String" -> ValueString_deserializeDiff(f, s, b)
    [] f.kind = "Array" -> ValueArray_deserializeDiff(f, s, b)
    [] OTHER -> Value_deserializeDiff(f, s, b)

-----------------------------------------------------------------------------
(* class ValueLink, src/record.cpp; list is list_ *)

RECURSIVE SerializeFrom(_, _, _, _, _)
SerializeFrom(list, i, s, begPos, b) ==
  IF i > Len(list) THEN [ok |-> TRUE, s |-> s, at |-> i]
  ELSE Only({
          IF ~r.ok THEN [ok |-> FALSE, s |-> seek(r.s, begPos), at |-> i]
          ELSE SerializeFrom(list, i + 1, r.s, begPos, b)
    : r \in {Field_serialize(list[i], s, b)} })

\* variant: a failed walk rewinds to the start of the stream, not to begPos
ValueLink_serialize_RewindToStart(list, s, b) == SerializeFrom(list, 1, s, 0, b)
ValueLink_serialize(list, s, b) == SerializeFrom(list, 1, s, tell(s), b)

RECURSIVE SerializeDiffFrom(_, _, _, _, _, _)
SerializeDiffFrom(list, other, i, s, begPos, b) ==
  IF i > Len(list) THEN [ok |-> TRUE, s |-> s, at |-> i]
  ELSE Only({
          IF ~r.ok THEN [ok |-> FALSE, s |-> seek(r.s, begPos), at |-> i]
          ELSE SerializeDiffFrom(list, other, i + 1, r.s, begPos, b)
    : r \in {Field_serializeDiff(list[i], other[i], s, b)} })

ValueLink_serializeDiff(list, other, s, b) ==
  IF Len(list) # Len(other) THEN [ok |-> FALSE, s |-> s, at |-> 0]
  ELSE SerializeDiffFrom(list, other, 1, s, tell(s), b)

\* at is the index of the field the walk stopped at (Len + 1: none)
RECURSIVE DeserializeFrom(_, _, _, _, _, _)
DeserializeFrom(list, i, s, begPos, diff, b) ==
  IF i > Len(list) THEN [ok |-> TRUE, s |-> s, list |-> list, at |-> i]
  ELSE Only({
          LET prevPos == tell(s)
              list1 == [list EXCEPT ![i] = r.f] IN
          IF ~r.ok
          THEN IF isSeparator(list[i])
               THEN [ok |-> TRUE, s |-> seek(r.s, prevPos), list |-> list1, at |-> i]
               ELSE [ok |-> FALSE, s |-> seek(r.s, begPos), list |-> list1, at |-> i]
          ELSE DeserializeFrom(list1, i + 1, r.s, begPos, diff, b)
    : r \in {IF diff THEN Field_deserializeDiff(list[i], s, b) ELSE Field_deserialize(list[i], s, b)} })

\* variant: a failed walk also puts the fields back to their pre-call values
ValueLink_deserialize_Atomic(list, s, b) ==
  Only({
     IF r.ok THEN r ELSE [r EXCEPT !.list = list]
    : r \in {DeserializeFrom(list, 1, s, tell(s), FALSE, b)} })
ValueLink_deserialize(list, s, b) == DeserializeFrom(list, 1, s, tell(s), FALSE, b)

ValueLink_deserializeDiff(list, s, b) == DeserializeFrom(list, 1, s, tell(s), TRUE, b)

\* equal, copy, getByteSize and getArraySize of the field classes
\* (ValueVersion inherits the defaults of ValueInterface)
Field_equal(f, other) ==
  CASE f.kind = "Version" -> FALSE
    [] f.kind = "Bool" -> other.kind = "Bool" /\ f.val = other.val
    [] f.kind = "String" -> other.kind = "String" /\ f.val = other.val
    [] f.kind = "Array" ->
         IsArrayOf(f, other) /\ \A i \in 1..Len(f.val) : f.val[i] = other.val[i]
    [] OTHER -> IsValueOf(f, other) /\ f.val = other.val

Field_copy(f, other) ==
  CASE f.kind = "Version" -> f
    [] f.kind = "Bool" -> IF other.kind = "Bool" THEN [f EXCEPT !.val = other.val] ELSE f
    [] f.kind = "String" -> IF other.kind = "String" THEN [f EXCEPT !.val = other.val] ELSE f
    [] f.kind = "Array" -> IF IsArrayOf(f, other) THEN [f EXCEPT !.val = other.val] ELSE f
    [] OTHER -> IF IsValueOf(f, other) THEN [f EXCEPT !.val = other.val] ELSE f

Field_getByteSize(f) ==
  CASE f.kind \in {"Version", "Bool"} -> 0
    [] f.kind = "String" -> Len(f.val)
    [] OTHER -> f.size

Field_getArraySize(f) ==
  CASE f.kind \in {"Version", "Bool"} -> 0
    [] f.kind = "Array" -> Len(f.val)
    [] OTHER -> 1

ValueLink_equal(list, other) ==
  IF Len(list) # Len(other) THEN FALSE
  ELSE \A i \in 1..Len(list) : Field_equal(list[i], other[i])

\* variant: the fields both records have are copied
ValueLink_copy_Prefix(list, other) ==
  [i \in 1..Len(list) |-> IF i <= Len(other) THEN Field_copy(list[i], other[i]) ELSE list[i]]
ValueLink_copy(list, other) ==
  IF Len(list) # Len(other) THEN list
  ELSE [i \in 1..Len(list) |-> Field_copy(list[i], other[i])]

\* the term of one field in the sum of getTotalBitSize
FieldBitSize(f) ==
  BaseBits
    + (IF ~isBool(f) /\ ~isSeparator(f)
       THEN SizeBits + Field_getArraySize(f) * (Field_getByteSize(f) * ByteBits)
              + (IF Field_getArraySize(f) > 1 THEN ByteBits ELSE ByteBits - 1)
       ELSE 0)

RECURSIVE getTotalBitSize(_)
getTotalBitSize(list) ==
  IF list = <<>> THEN 0 ELSE FieldBitSize(list[1]) + getTotalBitSize(Tail(list))

needTotalSize(list) == (getTotalBitSize(list) + ByteBits - 1) \div ByteBits

-----------------------------------------------------------------------------
(* The records the drivers build (src/main.cpp, tests/main_test.cpp) and   *)
(* the values they are given                                               *)

\* NType(n) for a small integer n of either sign
Num(signed, size, n) ==
  Value(signed, size, Trunc(IF n < 0 THEN Neg64(ToBits(-n)) ELSE ToBits(n), size * ByteBits))

\* struct Test of tests/main_test.cpp, with the values of
\* test_cross_version_serialize_deserialize and test_diff_roundtrip
TestPoints == [i \in 1..16 |-> {}]
Namae == <<78, 97, 109, 97, 101>>
Watashi == <<87, 97, 116, 97, 115, 104, 105>>
DiffTarget == <<68, 105, 102, 102, 84, 97, 114, 103, 101, 116>>

Test(enabled, count, name, age, bits, code) ==
  << ValueBool(enabled), Num(FALSE, 4, count), ValueString(name), Num(FALSE, 1, age),
     ValueArray(FALSE, 4, TestPoints), ValueBits(FALSE, 4, ToBits(bits)),
     Num(TRUE, 2, code) >>

TestDefault == Test(FALSE, 1000, Namae, 20, 0, -2)

\* test and test2 of test_cross_version_serialize_deserialize
CrossTest == Test(FALSE, 1000, Namae, 20, 2, -2)
CrossTest2 == Test(TRUE, 100, Watashi, 25, 32, -2)

\* base of test_diff_roundtrip and next of test_diff_and_copy
DiffBase == Test(TRUE, 222, DiffTarget, 31, 4, -2)
CopyNext == Test(TRUE, 321, DiffTarget, 44, 18, -2)

\* struct TestVer2 : Test { vsep ver_1; vuint32_t number_; }
TestVer2(test, number) == test \o << ValueVersion, Num(FALSE, 4, number) >>

\* the records the model draws writer and base from, shape by shape
Samples ==
  << \* Bool, Integer<uint8_t>
     << << ValueBool(FALSE), Num(FALSE, 1, 0) >>,
        << ValueBool(TRUE), Num(FALSE, 1, 20) >>,
        << ValueBool(TRUE), Num(FALSE, 1, 200) >> >>,
     \* String, Integer<uint8_t>
     << << ValueString(<<>>), Num(FALSE, 1, 0) >>,
        << ValueString(<<78>>), Num(FALSE, 1, 20) >>,
        << ValueString(<<87, 97>>), Num(FALSE, 1, 25) >> >>,
     \* Integer<int8_t>
     << << Num(TRUE, 1, 0) >>, << Num(TRUE, 1, -2) >>,
        << Num(TRUE, 1, 100) >>, << Num(TRUE, 1, -128) >> >>,
     \* Integer<int16_t>, Bool
     << << Num(TRUE, 2, -2), ValueBool(FALSE) >>,
        << Num(TRUE, 2, 300), ValueBool(TRUE) >> >>,
     \* Integer<uint16_t>
     << << Num(FALSE, 2, 0) >>, << Num(FALSE, 2, 40000) >> >>,
     \* Integer<uint32_t>
     << << Num(FALSE, 4, 0) >>, << Num(FALSE, 4, 1000) >>,
        << Value(FALSE, 4, {0, 31}) >> >>,
     \* Integer<int32_t>
     << << Num(TRUE, 4, -7) >>, << Num(TRUE, 4, 2000000000) >> >>,
     \* Integer<uint64_t>
     << << Num(FALSE, 8, 0) >>, << Num(FALSE, 8, 5) >>,
        << Value(FALSE, 8, {0, 63}) >> >>,
     \* Integer<int64_t>
     << << Num(TRUE, 8, 0) >>, << Num(TRUE, 8, -7) >> >>,
     \* Bits<uint32_t>, Bool
     << << ValueBits(FALSE, 4, {1}), ValueBool(TRUE) >>,
        << ValueBits(FALSE, 4, {5}), ValueBool(FALSE) >> >>,
     \* IntegerArray<uint32_t, 2>
     << << ValueArray(FALSE, 4, << {}, {} >>) >>,
        << ValueArray(FALSE, 4, << ToBits(70), {31} >>) >> >>,
     \* IntegerArray<int32_t, 2>
     << << ValueArray(TRUE, 4, << {}, Trunc(Neg64({0, 1}), 32) >>) >>,
        << ValueArray(TRUE, 4, << {29, 30}, Trunc(Neg64({29, 30}), 32) >>) >>,
        << ValueArray(TRUE, 4, << {29, 30}, {} >>) >> >>,
     \* Bool, Version, Integer<uint8_t>
     << << ValueBool(FALSE), ValueVersion, Num(FALSE, 1, 0) >>,
        << ValueBool(TRUE), ValueVersion, Num(FALSE, 1, 7) >> >> >>

Range(seq) == {seq[i] : i \in 1..Len(seq)}

\* a record of another type with the construction defaults of its fields
DefaultField(f) ==
  CASE f.kind = "Bool" -> ValueBool(FALSE)
    [] f.kind = "String" -> ValueString(<<90>>)
    [] f.kind = "Array" -> [f EXCEPT !.val = [i \in 1..Len(f.val) |-> {0}]]
    [] f.kind = "Version" -> f
    [] OTHER -> [f EXCEPT !.val = {0}]

Defaults(list) == [i \in 1..Len(list) |-> DefaultField(list[i])]

\* the (writer, base, reader) triples of the tests
TestCases ==
  { \* test.deserialize(ser2): the writer is test2, the reader test
    [A |-> TestVer2(CrossTest2, 1024000), B |-> TestVer2(CrossTest2, 1024000), C |-> CrossTest],
    \* test2.deserialize(ser): the writer is test, the reader test2 (enabled_ = false)
    [A |-> CrossTest, B |-> CrossTest,
     C |-> TestVer2(Test(FALSE, 100, Watashi, 25, 32, -2), 1024000)],
    \* test_diff_roundtrip: diff.serializeDiff(ser, base)
    [A |-> TestDefault, B |-> DiffBase, C |-> DiffBase],
    \* test_diff_and_copy: prev.serializeDiff(ser2, next) with prev equal to next
    [A |-> CopyNext, B |-> CopyNext, C |-> CopyNext] }

\* the (writer, base, reader) triples:
\*   same shape, the reader a copy of the base (applied.valLink.copy(next.valLink));
\*   the writer of a newer version, the reader of the older one;
\*   the writer of an older version, the reader of the newer one;
\*   a base and reader of another shape than the writer
Cases ==
  UNION { { [A |-> a, B |-> b, C |-> b] : a \in Range(S), b \in Range(S) } : S \in Range(Samples) }
  \cup UNION { LET a == S[2]
               IN { [A |-> TestVer2(a, 1024000), B |-> TestVer2(a, 1024000), C |-> Defaults(a)],
                    [A |-> a, B |-> a, C |-> TestVer2(Defaults(a), 100)],
                    [A |-> a, B |-> << ValueBool(TRUE), ValueString(<<78>>) >>,
                     C |-> << ValueBool(TRUE), ValueString(<<78>>) >>] } : S \in Range(Samples) }
  \cup TestCases

RecIds == {"A", "B", "C"}
Readers == {"A", "C"}

\* Serializer ser{n}: the capacities in bytes the drivers construct
Capacity(c) == IF Len(c.A) > 4 THEN 64 ELSE WordBytes * MaxWords

\* positions the drivers seek to: before a word boundary and near the end
\* of the buffer
SeekPositions(s) == {56, s.bufferSize_ - 4}

\* ser.terminate(0xffffffff) of the drivers, and a mark ending in the bits 10
Marks == {0..31, 1..31}

NoWire == [kind |-> "none", beg |-> 0, end |-> 0, writer |-> <<>>, base |-> <<>>,
           marked |-> FALSE, mark |-> {}]
NoArrays == [w |-> <<>>, r |-> <<>>, num |-> 0]
NoLast == [op |-> "none", ret |-> TRUE, rec |-> "A", pre |-> Serializer(0), list0 |-> <<>>,
           at |-> 0, bits |-> 0, value |-> {}]

Init ==
  /\ \E c \in Cases :
       /\ recs = c
       /\ ser = Serializer(Capacity(c))
  /\ build \in Builds
  /\ pc = "init"
  /\ nops = 0
  /\ log = <<>>
  /\ arrays = NoArrays
  /\ wire = NoWire
  /\ last = NoLast

\* ser.seek(pos) before writing
SeekTo(pos) ==
  /\ pc = "init"
  /\ ser' = seek(ser, pos)
  /\ last' = [NoLast EXCEPT !.op = "seek", !.pre = ser]
  /\ UNCHANGED <<log, arrays, recs, build, pc, nops, wire>>

\* test.serialize(ser)
Serialize ==
  /\ pc = "init"
  /\ \E r \in {ValueLink_serialize(recs.A, ser, build)} :
        /\ ser' = r.s
        /\ wire' = IF r.ok
                   THEN [kind |-> "full", beg |-> tell(ser), end |-> tell(r.s),
                         writer |-> recs.A, base |-> <<>>, marked |-> FALSE, mark |-> {}]
                   ELSE NoWire
        /\ last' = [NoLast EXCEPT !.op = "serialize", !.ret = r.ok, !.pre = ser,
                                   !.list0 = recs.A, !.at = r.at]
  /\ pc' = "written"
  /\ UNCHANGED <<log, arrays, recs, build, nops>>

\* diff.serializeDiff(ser, base)
SerializeDiff ==
  /\ pc = "init"
  /\ \E r \in {ValueLink_serializeDiff(recs.A, recs.B, ser, build)} :
        /\ ser' = r.s
        /\ wire' = IF r.ok
                   THEN [kind |-> "diff", beg |-> tell(ser), end |-> tell(r.s),
                         writer |-> recs.A, base |-> recs.B, marked |-> FALSE, mark |-> {}]
                   ELSE NoWire
        /\ last' = [NoLast EXCEPT !.op = "serializeDiff", !.ret = r.ok, !.pre = ser,
                                   !.list0 = recs.A, !.at = r.at]
  /\ pc' = "written"
  /\ UNCHANGED <<log, arrays, recs, build, nops>>

\* ser.terminate(mark)
Terminate(mark) ==
  /\ pc = "written"
  /\ ser' = terminate(ser, mark, build)
  /\ wire' = IF wire.kind # "none" /\ tell(ser') = tell(ser) + 32
             THEN [wire EXCEPT !.marked = TRUE, !.mark = mark] ELSE wire
  /\ last' = [NoLast EXCEPT !.op = "terminate", !.pre = ser]
  /\ pc' = "marked"
  /\ UNCHANGED <<log, arrays, recs, build, nops>>

\* ser.reset()
Reset ==
  /\ pc \in {"init", "written", "marked"}
  /\ ser' = reset(ser)
  /\ last' = [NoLast EXCEPT !.op = "reset", !.pre = ser]
  /\ pc' = "rewound"
  /\ UNCHANGED <<log, arrays, recs, build, nops, wire>>

\* ser.seek(pos) back to where the payload starts
Rewind ==
  /\ pc \in {"written", "marked"}
  /\ wire.kind # "none"
  /\ wire.beg # 0
  /\ ser' = seek(ser, wire.beg)
  /\ last' = [NoLast EXCEPT !.op = "seek", !.pre = ser]
  /\ pc' = "rewound"
  /\ UNCHANGED <<log, arrays, recs, build, nops, wire>>

\* test.deserialize(ser)
Deserialize(rec) ==
  /\ pc = "rewound"
  /\ \E r \in {ValueLink_deserialize(recs[rec], ser, build)} :
        /\ ser' = r.s
        /\ recs' = [recs EXCEPT ![rec] = r.list]
        /\ last' = [NoLast EXCEPT !.op = "deserialize", !.ret = r.ok, !.rec = rec,
                                   !.pre = ser, !.list0 = recs[rec], !.at = r.at]
  /\ pc' = "read"
  /\ UNCHANGED <<log, arrays, build, nops, wire>>

\* diff.deserializeDiff(ser)
DeserializeDiff(rec) ==
  /\ pc = "rewound"
  /\ \E r \in {ValueLink_deserializeDiff(recs[rec], ser, build)} :
        /\ ser' = r.s
        /\ recs' = [recs EXCEPT ![rec] = r.list]
        /\ last' = [NoLast EXCEPT !.op = "deserializeDiff", !.ret = r.ok, !.rec = rec,
                                   !.pre = ser, !.list0 = recs[rec], !.at = r.at]
  /\ pc' = "read"
  /\ UNCHANGED <<log, arrays, build, nops, wire>>

\* the record the binary calls on recs[rec] take as their argument
Other(rec) == IF rec = "A" THEN "C" ELSE "A"

\* recs[rec].valLink.equal(other.valLink)
Equal(rec) ==
  /\ pc = "init"
  /\ last' = [NoLast EXCEPT !.op = "equal", !.rec = rec, !.pre = ser, !.list0 = recs[rec],
                             !.ret = ValueLink_equal(recs[rec], recs[Other(rec)])]
  /\ pc' = "compared"
  /\ UNCHANGED <<log, arrays, ser, recs, build, nops, wire>>

\* recs[rec].valLink.copy(other.valLink)
Copy(rec) ==
  /\ pc = "init"
  /\ recs' = [recs EXCEPT ![rec] = ValueLink_copy(recs[rec], recs[Other(rec)])]
  /\ last' = [NoLast EXCEPT !.op = "copy", !.rec = rec, !.pre = ser, !.list0 = recs[rec]]
  /\ pc' = "copied"
  /\ UNCHANGED <<log, arrays, ser, build, nops, wire>>

Next ==
  \/ \E pos \in SeekPositions(ser) : SeekTo(pos)
  \/ Serialize
  \/ SerializeDiff
  \/ \E mark \in Marks : Terminate(mark)
  \/ Reset
  \/ Rewind
  \/ \E rec \in Readers : Deserialize(rec)
  \/ \E rec \in Readers : DeserializeDiff(rec)
  \/ \E rec \in RecIds : Equal(rec)
  \/ \E rec \in RecIds : Copy(rec)

Spec == Init /\ [][Next]_vars

-----------------------------------------------------------------------------
(* The field-level driver: one field of a record is written or read on    *)
(* its own (val->serialize(ser) of the loops of ValueLink)                *)

FieldSerialize(i) ==
  /\ pc = "init"
  /\ i \in 1..Len(recs.A)
  /\ \E r \in {Field_serialize(recs.A[i], ser, build)} :
        /\ ser' = r.s
        /\ last' = [NoLast EXCEPT !.op = "Field.serialize", !.ret = r.ok, !.pre = ser,
                                   !.list0 = recs.A, !.at = i]
  /\ pc' = "written"
  /\ UNCHANGED <<log, arrays, recs, build, nops, wire>>

FieldSerializeDiff(i) ==
  /\ pc = "init"
  /\ i \in 1..Len(recs.A)
  /\ i \in 1..Len(recs.B)
  /\ \E r \in {Field_serializeDiff(recs.A[i], recs.B[i], ser, build)} :
        /\ ser' = r.s
        /\ last' = [NoLast EXCEPT !.op = "Field.serializeDiff", !.ret = r.ok, !.pre = ser,
                                   !.list0 = recs.A, !.at = i]
  /\ pc' = "written"
  /\ UNCHANGED <<log, arrays, recs, build, nops, wire>>

FieldDeserialize(rec, i) ==
  /\ pc = "rewound"
  /\ i \in 1..Len(recs[rec])
  /\ \E r \in {Field_deserialize(recs[rec][i], ser, build)} :
        /\ ser' = r.s
        /\ recs' = [recs EXCEPT ![rec][i] = r.f]
        /\ last' = [NoLast EXCEPT !.op = "Field.deserialize", !.ret = r.ok, !.rec = rec,
                                   !.pre = ser, !.list0 = recs[rec], !.at = i]
  /\ pc' = "read"
  /\ UNCHANGED <<log, arrays, build, nops, wire>>

FieldDeserializeDiff(rec, i) ==
  /\ pc = "rewound"
  /\ i \in 1..Len(recs[rec])
  /\ \E r \in {Field_deserializeDiff(recs[rec][i], ser, build)} :
        /\ ser' = r.s
        /\ recs' = [recs EXCEPT ![rec][i] = r.f]
        /\ last' = [NoLast EXCEPT !.op = "Field.deserializeDiff", !.ret = r.ok, !.rec = rec,
                                   !.pre = ser, !.list0 = recs[rec], !.at = i]
  /\ pc' = "read"
  /\ UNCHANGED <<log, arrays, build, nops, wire>>

\* the field positions of the longest record of the drivers
FieldIndex == 1..Len(TestVer2(TestDefault, 0))

NextField ==
  \/ \E pos \in SeekPositions(ser) : SeekTo(pos)
  \/ \E i \in FieldIndex : FieldSerialize(i)
  \/ \E i \in FieldIndex : FieldSerializeDiff(i)
  \/ Reset
  \/ \E rec \in Readers, i \in FieldIndex : FieldDeserialize(rec, i)
  \/ \E rec \in Readers, i \in FieldIndex : FieldDeserializeDiff(rec, i)

SpecField == Init /\ [][NextField]_vars

-----------------------------------------------------------------------------
(* The stream driver: the primitive calls on one Serializer               *)

\* the values and bit counts the driver passes
StreamValues == { 0..63, {0, 5, 31, 40, 63} }
StreamBits == {1, 8, 33, 64}
StreamSeeks(s) == {60, s.bufferSize_ - 4}

InitStream ==
  /\ ser = Serializer(WordBytes * MaxWords)
  /\ recs = [A |-> <<>>, B |-> <<>>, C |-> <<>>]
  /\ build \in Builds
  /\ pc = "init"
  /\ nops = 0
  /\ log = <<>>
  /\ arrays = NoArrays
  /\ wire = NoWire
  /\ last = NoLast

StreamCall(op, r, bits) ==
  /\ nops < MaxOps
  /\ nops' = nops + 1
  /\ ser' = r.s
  /\ last' = [NoLast EXCEPT !.op = op, !.ret = r.ok, !.pre = ser, !.bits = bits]
  /\ UNCHANGED <<log, arrays, recs, build, pc, wire>>

StreamRead(op, r, bits) ==
  /\ nops < MaxOps
  /\ nops' = nops + 1
  /\ ser' = r.s
  /\ last' = [NoLast EXCEPT !.op = op, !.ret = r.ok, !.pre = ser, !.bits = bits,
                             !.value = r.value]
  /\ UNCHANGED <<log, arrays, recs, build, pc, wire>>

WriteBits64(value, bits) == StreamCall("writeBits64", writeBits64(ser, value, bits, build), bits)

WriteBits(signed, value, bits) ==
  StreamCall("writeBits", writeBits(ser, signed, value, bits, build), bits)

ReadBits64(bits) == StreamRead("readBits64", readBits64(ser, bits, build), bits)

ReadBits(signed, bits) == StreamRead("readBits", readBits(ser, signed, 64, bits, build), bits)

StreamSeek(pos) ==
  StreamCall("seek", [ok |-> TRUE, s |-> seek(ser, pos)], 0)

StreamReset ==
  StreamCall("reset", [ok |-> TRUE, s |-> reset(ser)], 0)

NextStream ==
  \/ \E value \in StreamValues, bits \in StreamBits : WriteBits64(value, bits)
  \/ \E signed \in BOOLEAN, value \in StreamValues, bits \in StreamBits :
       WriteBits(signed, value, bits)
  \/ \E bits \in StreamBits : ReadBits64(bits)
  \/ \E signed \in BOOLEAN, bits \in StreamBits : ReadBits(signed, bits)
  \/ \E pos \in StreamSeeks(ser) : StreamSeek(pos)
  \/ StreamReset

SpecStream == InitStream /\ [][NextStream]_vars

-----------------------------------------------------------------------------
(* serializeBitField and deserializeBitField, include/record_bits.h.      *)
(* An array of BitClass is a sequence of elements, an element the         *)
(* sequence of its sizeof(BitClass) / 4 32-bit words, a word the set of   *)
(* its 1-bits; size is sizeof(BitClass) in bytes.                         *)

\* the widths of the two header fields and of the words of the loops
BitFieldSizeBits == 3
BitFieldNumBits == 13
HalfBits == 32
HalfBytes == 4

\* the words of data in memory order
RECURSIVE Flat(_)
Flat(data) == IF data = <<>> THEN <<>> ELSE data[1] \o Flat(Tail(data))

\* the write loops: writeBits64(*ptr_, 64) over pairs of words when wide,
\* writeBits(*ptr_, 32) over single words otherwise; stops at the first
\* write that fails
RECURSIVE WriteWords(_, _, _, _)
WriteWords(s, words, wide, b) ==
  IF words = <<>> THEN [ok |-> TRUE, s |-> s]
  ELSE Only({
     IF r.ok
     THEN WriteWords(r.s, SubSeq(words, IF wide THEN 3 ELSE 2, Len(words)), wide, b)
     ELSE [ok |-> FALSE, s |-> r.s]
    : r \in {IF wide
             THEN writeBits64(s, words[1] \cup Shl(words[2], HalfBits), WordBits, b)
             ELSE writeBits(s, FALSE, words[1], HalfBits, b)} })

serializeBitField(s, size, data, num, b) ==
  Only({
     IF ~r1.ok THEN [ok |-> FALSE, s |-> r1.s]
     ELSE Only({
        IF ~r2.ok THEN [ok |-> FALSE, s |-> r2.s]
        ELSE WriteWords(r2.s, Flat(SubSeq(data, 1, num)), size % 8 = 0, b)
       : r2 \in {writeBits(r1.s, FALSE, ToBits(num), BitFieldNumBits, b)} })
    : r1 \in {writeBits(s, FALSE, ToBits(size \div HalfBytes - 1), BitFieldSizeBits, b)} })

\* for (p < readSize) ser.readBits(dptr.ptr_[p], 32): the words p..readSize
\* of element e
RECURSIVE ReadWords(_, _, _, _, _)
ReadWords(s, e, p, readSize, b) ==
  IF p > readSize THEN [ok |-> TRUE, s |-> s, e |-> e]
  ELSE Only({
     IF r.ok
     THEN ReadWords(r.s, [e EXCEPT ![p] = r.value], p + 1, readSize, b)
     ELSE [ok |-> FALSE, s |-> r.s, e |-> e]
    : r \in {readBits(s, FALSE, HalfBits, HalfBits, b)} })

\* for (i < num): the elements i..num of data
RECURSIVE ReadElements(_, _, _, _, _, _, _)
ReadElements(s, data, i, num, readSize, posOffset, b) ==
  IF i > num THEN [ok |-> TRUE, s |-> s, data |-> data]
  ELSE Only({
     IF r.ok
     THEN ReadElements(seek(r.s, tell(r.s) + posOffset), [data EXCEPT ![i] = r.e],
                       i + 1, num, readSize, posOffset, b)
     ELSE [ok |-> FALSE, s |-> r.s, data |-> [data EXCEPT ![i] = r.e]]
    : r \in {ReadWords(s, data[i], 1, readSize, b)} })

\* variant: num is set to the number of elements of the block whatever the
\* caller's capacity
deserializeBitField_ReportWritten(s, size, data, num, b) ==
  Only({
     IF ~r1.ok THEN [ok |-> FALSE, s |-> r1.s, data |-> data, num |-> num]
     ELSE Only({
        IF ~r2.ok THEN [ok |-> FALSE, s |-> r2.s, data |-> data, num |-> num]
        ELSE
          LET readSize == ToNat(r2.size) + 1
              readNum == ToNat(r2.value)
              num1 == IF num < readNum THEN num ELSE readNum
              posOffset == IF size \div HalfBytes < readSize
                           THEN (readSize * HalfBytes - size) * ByteBits ELSE 0
              readSize1 == IF size \div HalfBytes < readSize
                           THEN size \div HalfBytes ELSE readSize
          IN Only({
                [ok |-> r.ok, s |-> r.s, data |-> r.data, num |-> readNum]
               : r \in {ReadElements(r2.s, data, 1, num1, readSize1, posOffset, b)} })
       : r2 \in {[size |-> r1.value] @@ readBits(r1.s, FALSE, WordBits, BitFieldNumBits, b)} })
    : r1 \in {readBits(s, FALSE, WordBits, BitFieldSizeBits, b)} })
\* deserializeBitField(ser, data, num): num is the capacity of data on
\* entry and the number of elements read on return
deserializeBitField(s, size, data, num, b) ==
  Only({
     IF ~r1.ok THEN [ok |-> FALSE, s |-> r1.s, data |-> data, num |-> num]
     ELSE Only({
        IF ~r2.ok THEN [ok |-> FALSE, s |-> r2.s, data |-> data, num |-> num]
        ELSE
          LET readSize == ToNat(r2.size) + 1
              readNum == ToNat(r2.value)
              num1 == IF num < readNum THEN num ELSE readNum
              posOffset == IF size \div HalfBytes < readSize
                           THEN (readSize * HalfBytes - size) * ByteBits ELSE 0
              readSize1 == IF size \div HalfBytes < readSize
                           THEN size \div HalfBytes ELSE readSize
          IN Only({
                [ok |-> r.ok, s |-> r.s, data |-> r.data, num |-> num1]
               : r \in {ReadElements(r2.s, data, 1, num1, readSize1, posOffset, b)} })
       : r2 \in {[size |-> r1.value] @@ readBits(r1.s, FALSE, WordBits, BitFieldNumBits, b)} })
    : r1 \in {readBits(s, FALSE, WordBits, BitFieldSizeBits, b)} })

-----------------------------------------------------------------------------
(* The bit-field driver: an array of BitField<Bit> is written with        *)
(* serializeBitField and read with deserializeBitField into an array of   *)
(* a Bit of the same or of another size (test_bitfield_size_migration)    *)

\* the largest sizeof(Bit) / 4 and the largest number of elements written
MaxBitWords == 3
MaxBitCount == 2

\* the word p of element i of the writer's array, and what the reader's
\* array holds before the read
WriterWord(i, p) == ToBits(16 * i + p) \cup {31}
ReaderWord == {0, 3, 30}

BitArray(words, count, written) ==
  [i \in 1..count |-> [p \in 1..words |-> IF written THEN WriterWord(i, p) ELSE ReaderWord]]

BitArrays ==
  { [w |-> BitArray(ww, cw, TRUE),
     r |-> BitArray(wr, cr, FALSE),
     num |-> cr]
    : ww \in 1..MaxBitWords, wr \in 1..MaxBitWords,
      cw \in 1..MaxBitCount, cr \in 1..(MaxBitCount + 1) }

\* sizeof(Bit) of the elements of an array
SizeOf(data) == HalfBytes * Len(data[1])

\* Serializer ser{n} of the bit-field driver: the largest block written
\* from position 0 does not fit
BitsCapacity == WordBytes * (MaxWords + 1)

\* the position the driver seeks to before writing: a block written there
\* has its elements on a storage word boundary
BitSeeks == {48}

InitBits ==
  /\ ser = Serializer(BitsCapacity)
  /\ recs = [A |-> <<>>, B |-> <<>>, C |-> <<>>]
  /\ build \in Builds
  /\ pc = "init"
  /\ nops = 0
  /\ log = <<>>
  /\ arrays \in BitArrays
  /\ wire = NoWire
  /\ last = NoLast

\* serializeBitField(ser, bf, count)
SerializeBitField ==
  /\ pc = "init"
  /\ \E r \in {serializeBitField(ser, SizeOf(arrays.w), arrays.w, Len(arrays.w), build)} :
        /\ ser' = r.s
        /\ wire' = IF r.ok
                   THEN [NoWire EXCEPT !.kind = "bits", !.beg = tell(ser), !.end = tell(r.s)]
                   ELSE NoWire
        /\ last' = [NoLast EXCEPT !.op = "serializeBitField", !.ret = r.ok, !.pre = ser]
  /\ pc' = "written"
  /\ UNCHANGED <<log, arrays, recs, build, nops>>

\* deserializeBitField(ser, bf, num)
DeserializeBitField ==
  /\ pc = "rewound"
  /\ \E r \in {deserializeBitField(ser, SizeOf(arrays.r), arrays.r, arrays.num, build)} :
        /\ ser' = r.s
        /\ arrays' = [arrays EXCEPT !.r = r.data, !.num = r.num]
        /\ last' = [NoLast EXCEPT !.op = "deserializeBitField", !.ret = r.ok, !.pre = ser,
                                   !.list0 = arrays.r, !.at = arrays.num]
  /\ pc' = "read"
  /\ UNCHANGED <<log, recs, build, nops, wire>>

NextBits ==
  \/ \E pos \in BitSeeks : SeekTo(pos)
  \/ SerializeBitField
  \/ Reset
  \/ Rewind
  \/ DeserializeBitField

SpecBits == InitBits /\ [][NextBits]_vars

-----------------------------------------------------------------------------
(* The stream order driver: a sequence of writeBits / writeBool calls     *)
(* from a start position, a seek back to it, and the matching sequence of *)
(* readBits / readBool calls (test_bool_io)                               *)

\* the largest number of calls of the write pass
MaxWrites == 2

\* the position the driver seeks to before writing: a 33-bit field written
\* there straddles two storage words
OrderSeeks == {40}

\* the NumType of the signed calls (bits) and the values passed: 5, -5, the
\* most negative value of the type and, for int64_t, 2^40 + 5 and its negation
SignedWidths == {8, 16, 32, 64}
SignedValues(tw) ==
  {ToBits(5), Neg64(ToBits(5)), (tw - 1)..(WordBits - 1)}
    \cup (IF tw = WordBits THEN {{0, 2, 40}, Neg64({0, 2, 40})} ELSE {})

InitOrder ==
  /\ ser = Serializer(WordBytes * MaxWords)
  /\ recs = [A |-> <<>>, B |-> <<>>, C |-> <<>>]
  /\ build \in Builds
  /\ pc = "init"
  /\ nops = 0
  /\ log = <<>>
  /\ arrays = NoArrays
  /\ wire = NoWire
  /\ last = NoLast

\* one call of the write pass; a call that does not fit is not part of the
\* sequence that is read back
OrderCall(op, signed, tw, value, bits, r) ==
  /\ pc \in {"init", "writing"}
  /\ Len(log) < MaxWrites
  /\ ser' = r.s
  /\ log' = IF r.ok
            THEN Append(log, [op |-> op, signed |-> signed, tw |-> tw, value |-> value,
                              bits |-> bits, pos |-> tell(ser)])
            ELSE log
  /\ wire' = IF pc = "init" THEN [NoWire EXCEPT !.kind = "stream", !.beg = tell(ser)] ELSE wire
  /\ last' = [NoLast EXCEPT !.op = op, !.ret = r.ok, !.pre = ser, !.bits = bits]
  /\ pc' = "writing"
  /\ UNCHANGED <<arrays, recs, build, nops>>

\* ser.writeBits<uint64_t>(value, bits)
OrderWriteBits(value, bits) ==
  OrderCall("writeBits", FALSE, WordBits, value, bits, writeBits(ser, FALSE, value, bits, build))

\* ser.writeBits<T>(value, 8 * sizeof(T)), T signed
OrderWriteSigned(tw, value) ==
  /\ value \in SignedValues(tw)
  /\ OrderCall("writeBits", TRUE, tw, value, tw, writeBits(ser, TRUE, value, tw, build))

\* ser.writeBool(value)
OrderWriteBool(value) ==
  OrderCall("writeBool", FALSE, ByteBits, IF value THEN {0} ELSE {}, 1, writeBool(ser, value, build))

\* ser.seek(start) after the write pass
OrderRewind ==
  /\ pc = "writing"
  /\ ser' = seek(ser, wire.beg)
  /\ last' = [NoLast EXCEPT !.op = "seek", !.pre = ser]
  /\ pc' = "reading"
  /\ UNCHANGED <<log, arrays, recs, build, nops, wire>>

\* the read call that matches call nops + 1 of the write pass
OrderRead ==
  /\ pc = "reading"
  /\ nops < Len(log)
  /\ \E e \in {log[nops + 1]} :
     \E r \in {IF e.op = "writeBool"
               THEN [ok |-> readBool(ser, build).ok, s |-> readBool(ser, build).s,
                     value |-> IF readBool(ser, build).value THEN {0} ELSE {}]
               ELSE readBits(ser, e.signed, e.tw, e.bits, build)} :
        /\ ser' = r.s
        /\ last' = [NoLast EXCEPT !.op = IF e.op = "writeBool" THEN "readBool" ELSE "readBits",
                                   !.ret = r.ok, !.pre = ser, !.bits = e.bits,
                                   !.at = nops + 1, !.value = r.value]
  /\ nops' = nops + 1
  /\ UNCHANGED <<log, arrays, recs, build, pc, wire>>

NextOrder ==
  \/ \E pos \in OrderSeeks : SeekTo(pos)
  \/ \E value \in StreamValues, bits \in StreamBits : OrderWriteBits(value, bits)
  \/ \E tw \in SignedWidths, value \in SignedValues(WordBits) \cup SignedValues(ByteBits)
        \cup SignedValues(2 * ByteBits) \cup SignedValues(HalfBits) : OrderWriteSigned(tw, value)
  \/ \E value \in BOOLEAN : OrderWriteBool(value)
  \/ OrderRewind
  \/ OrderRead

SpecOrder == InitOrder /\ [][NextOrder]_vars

-----------------------------------------------------------------------------
(* The string driver: the record calls on records that end in a String    *)
(* field, with strings up to and beyond the largest length the size field *)
(* can hold                                                               *)

\* std::string(n, c): the lengths and the byte the driver assigns
StringLengths == {0, 1, 2^SizeBits - 1, 2^SizeBits}
StringOf(n) == [i \in 1..n |-> 65 + (i % 26)]

\* struct { vbool; vstring } and struct { vstring }
StringRecords ==
  { << ValueString(StringOf(n)) >> : n \in StringLengths }
    \cup { << ValueBool(TRUE), ValueString(StringOf(n)) >> : n \in StringLengths }

\* Serializer ser{n}: room for the longest string and its header
StringCapacity == 2^SizeBits + 2 * WordBytes

InitString ==
  /\ \E a \in StringRecords, b \in StringRecords :
       /\ Len(a) = Len(b)
       /\ recs = [A |-> a, B |-> b, C |-> b]
  /\ ser = Serializer(StringCapacity)
  /\ build \in Builds
  /\ pc = "init"
  /\ nops = 0
  /\ log = <<>>
  /\ arrays = NoArrays
  /\ wire = NoWire
  /\ last = NoLast

SpecString == InitString /\ [][Next]_vars

-----------------------------------------------------------------------------
(* The array driver: records of one IntegerArray<uint8_t, N> field, the   *)
(* reader of the same or of another N                                     *)

\* the N of the arrays, up to the first that the count byte cannot hold
ArrayCounts == {1, 2, 3, 2^ByteBits}
ArrayOf(n, k) == [i \in 1..n |-> ToBits((k * i) % 61)]

\* struct { ValueArray<uint8_t, N> }: all elements 0, and elements below 61
ArrayRecords(n) == { << ValueArray(FALSE, 1, ArrayOf(n, k)) >> : k \in {0, 1} }

\* Serializer ser{n}: room for the longest array and its header
ArrayCapacity == 2^ByteBits + 2 * WordBytes

InitArray ==
  /\ \E n \in ArrayCounts, m \in ArrayCounts :
       \E a \in ArrayRecords(n), b \in ArrayRecords(n), c \in ArrayRecords(m) :
         recs = [A |-> a, B |-> b, C |-> c]
  /\ ser = Serializer(ArrayCapacity)
  /\ build \in Builds
  /\ pc = "init"
  /\ nops = 0
  /\ log = <<>>
  /\ arrays = NoArrays
  /\ wire = NoWire
  /\ last = NoLast

SpecArray == InitArray /\ [][Next]_vars

-----------------------------------------------------------------------------
(* Vocabulary of the properties                                            *)

SameType(f, g) ==
  /\ f.kind = g.kind
  /\ f.signed = g.signed
  /\ f.size = g.size
  /\ (f.kind = "Array" => Len(f.val) = Len(g.val))

SameShape(l1, l2) ==
  /\ Len(l1) = Len(l2)
  /\ \A i \in 1..Len(l1) : SameType(l1[i], l2[i])

\* older is the part of newer that precedes a Version marker
IsOlderShape(older, newer) ==
  /\ Len(older) < Len(newer)
  /\ SameShape(older, SubSeq(newer, 1, Len(older)))
  /\ isSeparator(newer[Len(older) + 1])
  /\ \A i \in 1..Len(older) : ~isSeparator(older[i])

BitAt(s, pos) == (pos % WordBits) \in s.buffer_[(pos \div WordBits) + 1]

\* the last call read, from its first bit, a payload the driver wrote
ReadOf(kind, op) ==
  /\ pc = "read"
  /\ last.op = op
  /\ wire.kind = kind
  /\ tell(last.pre) = wire.beg

\* the position at which the encoding of list ends when it starts at s
EncodedEnd(list, s) == tell(ValueLink_serialize(list, s, build).s)

-----------------------------------------------------------------------------
(* C1: a record written with serialize and read back from the same        *)
(* position with deserialize into a record of the same field sequence     *)
(* returns success and every field of the reader equals the writer's.     *)
C1_FullRoundTrip ==
  (ReadOf("full", "deserialize") /\ SameShape(last.list0, wire.writer))
    => (last.ret /\ recs[last.rec] = wire.writer)

(* C2: delta-apply law: A.serializeDiff(stream, B), then C.deserializeDiff *)
(* with C's fields equal to B's returns success and leaves C equal to A.  *)
C2_DeltaApply ==
  (ReadOf("diff", "deserializeDiff") /\ last.rec = "C" /\ last.list0 = wire.base)
    => (last.ret /\ recs.C = wire.writer)

(* C3: diff round trip onto the writer: A.serializeDiff(S, B), then       *)
(* A.deserializeDiff(S) returns success and leaves every field of A,      *)
(* Bool and String included, equal to B's.                                *)
C3_DiffOntoWriter ==
  (ReadOf("diff", "deserializeDiff") /\ last.rec = "A" /\ last.list0 = wire.writer)
    => (last.ret /\ recs.A = wire.base)

(* C4: older reader, newer bytes: deserialize returns success, every      *)
(* older field takes the writer's value, and tell() is the position of    *)
(* the Version marker in the newer bytes.                                 *)
C4_OlderReaderNewerBytes ==
  (ReadOf("full", "deserialize") /\ IsOlderShape(last.list0, wire.writer))
    => /\ last.ret
       /\ recs[last.rec] = SubSeq(wire.writer, 1, Len(last.list0))
       /\ tell(ser) = EncodedEnd(SubSeq(wire.writer, 1, Len(last.list0)), last.pre)

\* what follows the old payload: a terminate mark, never-written zero bits,
\* or the end of the buffer
OldPayloadTail ==
  \/ wire.marked
  \/ wire.end + BaseBits > last.pre.bufferSize_
  \/ (~BitAt(last.pre, wire.end) /\ ~BitAt(last.pre, wire.end + 1))

(* C5: newer reader, older bytes: deserialize returns success, the shared *)
(* leading fields take the writer's values, the fields from the Version   *)
(* marker on keep their pre-call values, and tell() is the end of the     *)
(* old payload.                                                           *)
C5_NewerReaderOlderBytes ==
  (ReadOf("full", "deserialize") /\ IsOlderShape(wire.writer, last.list0) /\ OldPayloadTail)
    => /\ last.ret
       /\ SubSeq(recs[last.rec], 1, Len(wire.writer)) = wire.writer
       /\ \A i \in (Len(wire.writer) + 1)..Len(last.list0) : recs[last.rec][i] = last.list0[i]
       /\ tell(ser) = wire.end

\* the payload and the reader of test_cross_version_serialize_deserialize
CrossVersionRead ==
  /\ ReadOf("full", "deserialize")
  /\ wire.writer = TestVer2(CrossTest2, 1024000)
  /\ last.list0 = CrossTest

\* enabled, name and age of the reader are the payload's
CrossVersionUpdated ==
  /\ recs[last.rec][1] = wire.writer[1]
  /\ recs[last.rec][3] = wire.writer[3]
  /\ recs[last.rec][4] = wire.writer[4]

C7_SerializeRollback ==
  (last.op \in {"serialize", "serializeDiff"} /\ last.at \in 1..Len(last.list0))
    => (~last.ret /\ tell(ser) = tell(last.pre))

C7_Witness ==
  /\ last.op = "serialize"
  /\ ~last.ret
  /\ last.at > 1
  /\ tell(last.pre) > 0
  /\ ser.buffer_ # last.pre.buffer_
  /\ tell(ser) = tell(last.pre)

\* the fields before the one the walk stopped at, decoded on their own
DecodedPrefix ==
  LET prefix == SubSeq(last.list0, 1, last.at - 1)
  IN IF last.op = "deserialize"
     THEN ValueLink_deserialize(prefix, last.pre, build).list
     ELSE ValueLink_deserializeDiff(prefix, last.pre, build).list

(* C8: when deserialize or deserializeDiff fails on a field that is not a *)
(* Version marker, it returns failure with tell() restored, and the       *)
(* fields before the failing one keep the values decoded from the stream. *)
C8_DeserializeFailure ==
  (/\ last.op \in {"deserialize", "deserializeDiff"}
   /\ last.at \in 1..Len(last.list0)
   /\ ~isSeparator(last.list0[last.at]))
    => /\ ~last.ret
       /\ tell(ser) = tell(last.pre)
       /\ SubSeq(recs[last.rec], 1, last.at - 1) = DecodedPrefix

C8_Witness ==
  /\ last.op = "deserialize"
  /\ ~last.ret
  /\ last.at > 1
  /\ ~isSeparator(last.list0[last.at])
  /\ tell(last.pre) > 0
  /\ recs[last.rec][1] # last.list0[1]
  /\ recs[last.rec][1] = DecodedPrefix[1]

FieldOps == {"Field.serialize", "Field.serializeDiff", "Field.deserialize",
             "Field.deserializeDiff"}

\* a non-zero 32 bit number
IsNumber32(f) == f.kind \in {"Value", "Bits"} /\ f.size = 4 /\ f.val # {}

(* C9: whenever the serialize, serializeDiff, deserialize or              *)
(* deserializeDiff of one field returns failure, tell() is what it was    *)
(* before that call; writing a non-zero 32 bit number with fewer than 40  *)
(* bits left fails and leaves tell() unchanged.                           *)
C9_FieldRollback ==
  /\ (last.op \in FieldOps /\ ~last.ret) => tell(ser) = tell(last.pre)
  /\ (/\ last.op = "Field.serialize"
      /\ IsNumber32(last.list0[last.at])
      /\ last.pre.bufferSize_ - tell(last.pre) < 40)
       => (~last.ret /\ tell(ser) = tell(last.pre))

PrimOps == {"writeBits", "writeBits64", "readBits", "readBits64"}

(* C10: writeBits, writeBits64, readBits and readBits64 with bit count n  *)
(* fail exactly when tell() + n > cap_bits; a failure leaves tell() and   *)
(* every buffer bit unchanged, a success advances tell() by n.            *)
C10_PrimitiveBounds ==
  last.op \in PrimOps =>
    /\ ~last.ret <=> (tell(last.pre) + last.bits > last.pre.bufferSize_)
    /\ ~last.ret => ser = last.pre
    /\ last.ret => tell(ser) = tell(last.pre) + last.bits

C10_Witness ==
  /\ last.op = "writeBits64"
  /\ ~last.ret
  /\ tell(last.pre) < last.pre.bufferSize_
  /\ last.pre.buffer_ # Serializer(WordBytes * MaxWords).buffer_

-----------------------------------------------------------------------------
(* C11: after every operation of the stream and of the codecs, the two    *)
(* bit-field functions included, the cursor lies within the buffer:       *)
(* 0 <= tell() <= capacity in bits.                                       *)
C11_CursorInRange == 0 <= tell(ser) /\ tell(ser) <= ser.bufferSize_

-----------------------------------------------------------------------------
\* the read call that matches call i of the write pass has just returned
ReadBack(i) ==
  /\ pc = "reading"
  /\ last.op \in {"readBits", "readBool"}
  /\ last.at = i

(* C12: a sequence of unsigned writeBits and writeBool calls (v, n),      *)
(* 1 <= n <= 64, that fit the capacity, from any start position, followed *)
(* by a seek back to the start and the matching reads, returns            *)
(* v mod 2^n for every call, in order; this includes fields that straddle *)
(* two storage words and 64-bit fields on a storage word boundary.        *)
C12_StreamOrderRoundTrip ==
  \A i \in 1..Len(log) :
    (ReadBack(i) /\ ~log[i].signed)
      => (last.ret /\ last.value = Trunc(log[i].value, log[i].bits))

\* |v| < 2^(n - 1) for the n-bit two's complement value v
MagnitudeFits(v, n) ==
  IF IsNeg64(v) THEN Trunc(Neg64(v), n - 1) = Neg64(v) ELSE Trunc(v, n - 1) = v

\* the bits pos .. pos + n - 1 of the buffer as a value
FieldAt(s, pos, n) == {k \in 0..(n - 1) : BitAt(s, pos + k)}

(* C13: the signed write of v into n = 8 * sizeof(T) bits, n one of 8,    *)
(* 16, 32, 64, stores 1 in the top bit of the field iff v < 0 and |v| in  *)
(* the lower n - 1 bits, and the signed read returns v if and only if     *)
(* |v| < 2^(n - 1).                                                       *)
C13_SignMagnitudeRange ==
  \A i \in 1..Len(log) :
    (ReadBack(i) /\ log[i].signed)
      => /\ last.ret
         /\ MagnitudeFits(log[i].value, log[i].bits)
              => /\ ((log[i].bits - 1) \in FieldAt(ser, log[i].pos, log[i].bits))
                       <=> IsNeg64(log[i].value)
                 /\ Trunc(FieldAt(ser, log[i].pos, log[i].bits), log[i].bits - 1)
                       = IF IsNeg64(log[i].value) THEN Neg64(log[i].value) ELSE log[i].value
         /\ (Trunc(last.value, log[i].bits) = Trunc(log[i].value, log[i].bits))
              <=> MagnitudeFits(log[i].value, log[i].bits)

-----------------------------------------------------------------------------
\* the fields of list are numbers, Bools, Version markers and Strings
NoArrayField(list) == \A i \in 1..Len(list) : list[i].kind # "Array"

\* diff.serializeDiff(ser, base) has just returned, called with a writer
\* equal to the base field by field, no array among the fields, and room
\* for two bits per field
ZeroDeltaCall ==
  /\ pc = "written"
  /\ last.op = "serializeDiff"
  /\ recs.A = recs.B
  /\ NoArrayField(recs.A)
  /\ tell(last.pre) + BaseBits * Len(recs.A) <= last.pre.bufferSize_

(* C14: for two records of the same shape whose fields are numbers,       *)
(* Bools, Version markers and Strings and are equal field by field,       *)
(* serializeDiff (into a stream with room for it) succeeds and advances   *)
(* tell() by exactly 2 bits per field.                                    *)
C14_ZeroDeltaCompact ==
  ZeroDeltaCall
    => /\ last.ret
       /\ tell(ser) = tell(last.pre) + 2 * Len(recs.A)

C14_Witness ==
  /\ ZeroDeltaCall
  /\ last.ret
  /\ \E i \in 1..Len(recs.A) : recs.A[i].kind = "String" /\ recs.A[i].val # <<>>
  /\ \E i \in 1..Len(recs.A) : recs.A[i].kind = "Value" /\ recs.A[i].val # {}

-----------------------------------------------------------------------------
(* C15: getTotalBitSize() bounds the encoded size from above: the bits a  *)
(* successful serialize writes (tell() after minus tell() before) are at  *)
(* most getTotalBitSize() of the record, for every shape and every        *)
(* assignment of values, so a buffer of needTotalSize() bytes suffices.   *)
C15_TotalBitSizeBound ==
  (pc = "written" /\ last.op = "serialize" /\ last.ret)
    => /\ tell(ser) - tell(last.pre) <= getTotalBitSize(recs.A)
       /\ tell(ser) - tell(last.pre) <= ByteBits * needTotalSize(recs.A)

-----------------------------------------------------------------------------
\* the last call was op on recs[last.rec] with a record of another length
\* as its argument
MismatchCall(op) ==
  /\ last.op = op
  /\ Len(last.list0) # Len(recs[Other(last.rec)])

(* C16: between two ValueLinks with different numbers of fields,          *)
(* serializeDiff returns failure without writing a bit or moving tell(),  *)
(* copy changes no field of the destination, and equal returns false.     *)
C16_LengthMismatch ==
  /\ (pc = "written" /\ last.op = "serializeDiff" /\ Len(recs.A) # Len(recs.B))
       => (~last.ret /\ ser = last.pre)
  /\ MismatchCall("copy") => recs[last.rec] = last.list0
  /\ MismatchCall("equal") => ~last.ret

\* a copy between records whose common fields differ in value
C16_Witness ==
  /\ MismatchCall("copy")
  /\ \E i \in 1..Len(last.list0) :
       /\ i <= Len(recs[Other(last.rec)])
       /\ Field_copy(last.list0[i], recs[Other(last.rec)][i]) # last.list0[i]

-----------------------------------------------------------------------------
\* deserializeBitField has just returned from reading, from its first bit,
\* a block that serializeBitField wrote in full
BlockRead ==
  /\ pc = "read"
  /\ last.op = "deserializeBitField"
  /\ wire.kind = "bits"
  /\ tell(last.pre) = wire.beg

\* the smaller of two numbers
Min(a, b) == IF a < b THEN a ELSE b

\* the element counts of the block and the reader's capacity, and the
\* element widths in words
Cw == Len(arrays.w)
Cr == last.at
Ww == Len(arrays.w[1])
Wr == Len(arrays.r[1])

(* C17: deserializeBitField called with capacity Cr on a block of count   *)
(* Cw decodes exactly min(Cr, Cw) elements and reports that number        *)
(* through num (Cr when Cr < Cw, otherwise Cw); the reader's elements at  *)
(* indices >= min(Cr, Cw) keep their pre-call contents.                   *)
C17_DecodedCount ==
  BlockRead
    => /\ last.ret
       /\ arrays.num = Min(Cr, Cw)
       /\ arrays.num = IF Cr < Cw THEN Cr ELSE Cw
       /\ tell(ser) = wire.beg + BitFieldSizeBits + BitFieldNumBits
                        + Min(Cr, Cw) * Ww * HalfBits
       /\ \A i \in 1..Len(arrays.r) : i > Min(Cr, Cw) => arrays.r[i] = last.list0[i]

\* a reader with more room than the block has elements
C17_Witness ==
  /\ BlockRead
  /\ Cw < Cr
  /\ arrays.num = Cw
  /\ arrays.r[Cr] = last.list0[Cr]

-----------------------------------------------------------------------------
(* C18: when the block was written with elements of Ww words and the      *)
(* reader's structure has Wr < Ww words, deserializeBitField stores the   *)
(* first Wr words of written element i into reader element i for every    *)
(* decoded i, and advances the stream by (Ww - Wr) * 32 extra bits after  *)
(* each element.                                                          *)
C18_NarrowerReader ==
  (BlockRead /\ Wr < Ww)
    => /\ \A i \in 1..arrays.num : \A p \in 1..Wr : arrays.r[i][p] = arrays.w[i][p]
       /\ tell(ser) = wire.beg + BitFieldSizeBits + BitFieldNumBits
                        + arrays.num * (Wr * HalfBits + (Ww - Wr) * HalfBits)

(* C19: when the reader's structure is wider than the written element     *)
(* (Wr > Ww), deserializeBitField overwrites only the first Ww words of   *)
(* each decoded reader element, with the writer's words, and leaves the   *)
(* other Wr - Ww words of every reader element at their pre-call value.   *)
C19_WiderReader ==
  (BlockRead /\ Wr > Ww)
    => /\ \A i \in 1..arrays.num : \A p \in 1..Ww : arrays.r[i][p] = arrays.w[i][p]
       /\ \A i \in 1..Len(arrays.r) : \A p \in (Ww + 1)..Wr :
            arrays.r[i][p] = last.list0[i][p]

-----------------------------------------------------------------------------
\* an Integer<T> or Bits<T> field with T of 8, 16 or 32 bits
IsSmallNumber(f) == f.kind \in {"Value", "Bits"} /\ f.size \in {1, 2, 4}

\* b - a in T
DeltaOf(f, b, a) == Trunc(Sub64(Widen(f, b), Widen(f, a)), f.size * ByteBits)

(* C20: for every Integer<T> / Bits<T> field with T of 8, 16 or 32 bits,  *)
(* signed or unsigned, and every pair a, b of values of T, the writer     *)
(* holding a that calls serializeDiff against a base holding b writes the *)
(* delta b - a, and deserializeDiff on a receiver holding a adds the      *)
(* delta read and leaves the receiver holding exactly b.                  *)
C20_NumberDiffArithmetic ==
  (/\ ReadOf("diff", "deserializeDiff")
   /\ last.list0 = wire.writer
   /\ \A i \in 1..Len(wire.writer) : IsSmallNumber(wire.writer[i]))
    => /\ last.ret
       /\ Trunc(readNumberImpl(last.pre, wire.writer[1].signed, build).value,
                wire.writer[1].size * ByteBits)
            = DeltaOf(wire.writer[1], wire.base[1].val, wire.writer[1].val)
       /\ \A i \in 1..Len(wire.writer) : recs[last.rec][i].val = wire.base[i].val

-----------------------------------------------------------------------------
\* an Integer<T> or Bits<T> field
IsNumber(f) == f.kind \in {"Value", "Bits"}

\* serialize has just written a record whose first field is a number
NumberWritten ==
  /\ pc = "written"
  /\ last.op = "serialize"
  /\ last.ret
  /\ Len(recs.A) >= 1
  /\ IsNumber(recs.A[1])

(* C21: serialize of an Integer<T> / Bits<T> field of value 0 writes      *)
(* exactly the 2 bits 00; for a value other than 0 it writes 11, a 6-bit  *)
(* size field that is >= 1 and equals the declared width 8 * sizeof(T),   *)
(* for T of 8, 16, 32 and 64 bits, and the value in that many bits; a     *)
(* reader of the same type decodes it successfully.                       *)
C21_NumberEncoding ==
  /\ NumberWritten
       => IF recs.A[1].val = {}
          THEN /\ FieldAt(ser, tell(last.pre), BaseBits) = BBZero
               /\ Len(recs.A) = 1 => tell(ser) = tell(last.pre) + BaseBits
          ELSE /\ FieldAt(ser, tell(last.pre), BaseBits) = BBOther
               /\ ToNat(FieldAt(ser, tell(last.pre) + BaseBits, SizeBits)) >= 1
               /\ ToNat(FieldAt(ser, tell(last.pre) + BaseBits, SizeBits))
                    = ByteBits * recs.A[1].size
               /\ Len(recs.A) = 1
                    => tell(ser) = tell(last.pre) + BaseBits + SizeBits + ByteBits * recs.A[1].size
               /\ ~recs.A[1].signed
                    => FieldAt(ser, tell(last.pre) + BaseBits + SizeBits, ByteBits * recs.A[1].size)
                         = recs.A[1].val
  /\ (/\ ReadOf("full", "deserialize")
      /\ SameShape(last.list0, wire.writer)
      /\ \A i \in 1..Len(wire.writer) : IsNumber(wire.writer[i]))
       => last.ret

-----------------------------------------------------------------------------
\* serialize has just written a record whose last field is a String, the
\* fields before it Bools
StringWritten ==
  /\ pc = "written"
  /\ last.op = "serialize"
  /\ last.ret
  /\ recs.A[Len(recs.A)].kind = "String"
  /\ \A i \in 1..(Len(recs.A) - 1) : isBool(recs.A[i])

\* where the String field starts, and where its body starts
StringPos == tell(last.pre) + BaseBits * (Len(recs.A) - 1)
BodyPos == tell(alignByte(seek(ser, StringPos + BaseBits + SizeBits)))
StringVal == recs.A[Len(recs.A)].val

(* C22: for every string value a String field can be assigned, serialize  *)
(* writes 11, a 6-bit size field equal to the byte length and, when the   *)
(* length is at least 1, zero padding up to the next byte boundary and    *)
(* the bytes in order, so that the body starts at a multiple of 8; a      *)
(* length of 0 writes nothing after the size field.                       *)
C22_StringEncoding ==
  StringWritten
    => /\ FieldAt(ser, StringPos, BaseBits) = BBOther
       /\ ToNat(FieldAt(ser, StringPos + BaseBits, SizeBits)) = Len(StringVal)
       /\ IF Len(StringVal) = 0
          THEN tell(ser) = StringPos + BaseBits + SizeBits
          ELSE /\ BodyPos % ByteBits = 0
               /\ \A k \in (StringPos + BaseBits + SizeBits)..(BodyPos - 1) : ~BitAt(ser, k)
               /\ \A i \in 1..Len(StringVal) :
                    ToNat(FieldAt(ser, BodyPos + ByteBits * (i - 1), ByteBits)) = StringVal[i]
               /\ tell(ser) = BodyPos + ByteBits * Len(StringVal)

-----------------------------------------------------------------------------
\* |v| for the element v of the array field f
MagnitudeOf(f, v) == IF IsNeg64(Widen(f, v)) THEN Neg64(Widen(f, v)) ELSE Widen(f, v)

\* the payload widths of the tags 00, 01, 10, 11
PayloadBits == <<6, 14, 30, 62>>

\* the smallest tag (1..4 for 00..11) whose range covers the element v:
\* the magnitude fits the payload, less the sign bit for a signed type
SmallestTag(f, v) ==
  CHOOSE t \in 1..4 :
    /\ t < 4 => MagnitudeOf(f, v) \subseteq 0..(PayloadBits[t] - (IF f.signed THEN 2 ELSE 1))
    /\ \A u \in 1..(t - 1) :
         ~(MagnitudeOf(f, v) \subseteq 0..(PayloadBits[u] - (IF f.signed THEN 2 ELSE 1)))

\* the bits the elements of f take with the smallest tags
RECURSIVE ElementBits(_, _)
ElementBits(f, i) ==
  IF i > Len(f.val) THEN 0
  ELSE 2 + PayloadBits[SmallestTag(f, f.val[i])] + ElementBits(f, i + 1)

\* a record of one IntegerArray field has been written and read back from
\* its first bit into a record of the same type
ArrayReadBack ==
  /\ ReadOf("full", "deserialize")
  /\ Len(wire.writer) = 1
  /\ wire.writer[1].kind = "Array"
  /\ SameShape(last.list0, wire.writer)

(* C23: for each element writeArrayValue selects the smallest of the tags *)
(* 00, 01, 10, 11 (6, 14, 30, 62 payload bits) whose range covers the     *)
(* value (signed: |v| <= 2^5-1, 2^13-1, 2^29-1, 2^61-1; unsigned:         *)
(* v <= 2^6-1, 2^14-1, 2^30-1, 2^62-1), and readArrayValue, dispatching   *)
(* on the tag, returns exactly the written value.                         *)
C23_ArrayElementCodec ==
  ArrayReadBack
    => /\ ToNat(FieldAt(last.pre, wire.beg + BaseBits + SizeBits + ByteBits, 2)) + 1
            = SmallestTag(wire.writer[1], wire.writer[1].val[1])
       /\ wire.end = wire.beg + BaseBits + SizeBits + ByteBits + ElementBits(wire.writer[1], 1)
       /\ last.ret
       /\ recs[last.rec] = wire.writer

-----------------------------------------------------------------------------
\* serialize or serializeDiff has just written a record of one
\* IntegerArray field
ArrayWritten ==
  /\ pc = "written"
  /\ last.op \in {"serialize", "serializeDiff"}
  /\ last.ret
  /\ Len(recs.A) = 1
  /\ recs.A[1].kind = "Array"

\* the count byte of the array header that starts at pos
CountAt(s, pos) == ToNat(FieldAt(s, pos + BaseBits + SizeBits, ByteBits))

\* deserialize or deserializeDiff has read the header of such a record
\* into a record of one IntegerArray field
ArrayCountRead ==
  /\ pc = "read"
  /\ last.op \in {"deserialize", "deserializeDiff"}
  /\ wire.kind = (IF last.op = "deserialize" THEN "full" ELSE "diff")
  /\ tell(last.pre) = wire.beg
  /\ Len(wire.writer) = 1
  /\ wire.writer[1].kind = "Array"
  /\ Len(last.list0) = 1
  /\ last.list0[1].kind = "Array"

(* C24: serialize and serializeDiff of an IntegerArray<T, N> write the    *)
(* header 11, the size field 0 and an 8-bit count equal to N; deserialize *)
(* and deserializeDiff into an IntegerArray<T, M> return false and change *)
(* no element when the count read from the stream differs from M.         *)
C24_ArrayCount ==
  /\ ArrayWritten
       => /\ FieldAt(ser, tell(last.pre), BaseBits) = BBOther
          /\ FieldAt(ser, tell(last.pre) + BaseBits, SizeBits) = {}
          /\ CountAt(ser, tell(last.pre)) = Len(recs.A[1].val)
  /\ (ArrayCountRead /\ CountAt(last.pre, wire.beg) # Len(last.list0[1].val))
       => /\ ~last.ret
          /\ recs[last.rec] = last.list0

-----------------------------------------------------------------------------
\* the block written as 32-bit words, low word first: the 4 byte branch of
\* serializeBitField applied to the same data
serializeBitField_Words(s, size, data, num, b) ==
  Only({
     IF ~r1.ok THEN [ok |-> FALSE, s |-> r1.s]
     ELSE Only({
        IF ~r2.ok THEN [ok |-> FALSE, s |-> r2.s]
        ELSE WriteWords(r2.s, Flat(SubSeq(data, 1, num)), FALSE, b)
       : r2 \in {writeBits(r1.s, FALSE, ToBits(num), BitFieldNumBits, b)} })
    : r1 \in {writeBits(s, FALSE, ToBits(size \div HalfBytes - 1), BitFieldSizeBits, b)} })

\* serializeBitField has just written a block of a structure whose size is
\* a multiple of 8 bytes
WideBlockWritten ==
  /\ pc = "written"
  /\ last.op = "serializeBitField"
  /\ last.ret
  /\ SizeOf(arrays.w) % 8 = 0

(* C25: for a structure whose size is a multiple of 8 bytes, the 64-bit   *)
(* write path of serializeBitField leaves the same buffer bits and the    *)
(* same tell() as writing the same data as consecutive 32-bit words, low  *)
(* word first, for every start position of the block, including those     *)
(* that put the 64-bit writes on a storage word boundary.                 *)
C25_WidePathEquivalent ==
  WideBlockWritten
    => ser = serializeBitField_Words(last.pre, SizeOf(arrays.w), arrays.w,
                                     Len(arrays.w), build).s

-----------------------------------------------------------------------------
\* deserializeDiff has just read, from its first bit, the stream that
\* serializeDiff wrote for a writer equal to its base field by field, into
\* a record whose fields equal the base's
ZeroDiffApplied ==
  /\ ReadOf("diff", "deserializeDiff")
  /\ wire.writer = wire.base
  /\ last.list0 = wire.base

(* C26: a zero diff is the identity: when A equals B field by field, the  *)
(* stream of A.serializeDiff(stream, B), applied with deserializeDiff to  *)
(* a record C of the same shape whose fields equal B's, succeeds and      *)
(* leaves every field of C unchanged, so that C still equals B.           *)
C26_ZeroDiffIdentity ==
  ZeroDiffApplied
    => /\ last.ret
       /\ recs[last.rec] = last.list0
       /\ recs[last.rec] = wire.base

-----------------------------------------------------------------------------
\* equal has just been called on recs[last.rec] with the other record
EqualCalled ==
  /\ pc = "compared"
  /\ last.op = "equal"

\* copy has just been called on recs[last.rec] with a record of the same
\* shape
CopyCalled ==
  /\ pc = "copied"
  /\ last.op = "copy"
  /\ SameShape(last.list0, recs[Other(last.rec)])

(* C27: ValueLink::equal agrees with the field-wise equality of the       *)
(* values for every record shape, shapes with Version markers included:   *)
(* it returns true exactly when the two records have the same fields with *)
(* the same values (so R.equal(R) is true), and after A.copy(B) on two    *)
(* records of the same shape A.equal(B) returns true.                     *)
C27_EqualIsFieldwise ==
  /\ EqualCalled => (last.ret <=> recs[last.rec] = recs[Other(last.rec)])
  /\ CopyCalled => ValueLink_equal(recs[last.rec], recs[Other(last.rec)])

-----------------------------------------------------------------------------
\* deserialize has just read, from its first bit, the payload of an older
\* writer into a record that continues it with a Version marker
NewerReaderRead ==
  /\ ReadOf("full", "deserialize")
  /\ IsOlderShape(wire.writer, last.list0)

(* C28: a newer reader never consumes bits beyond the payload of an older *)
(* writer: whatever bits follow the old payload in the buffer,            *)
(* deserialize into the newer record returns success, leaves tell() at    *)
(* the end of the old payload and leaves the fields after the reader's    *)
(* Version marker at their pre-call values.                               *)
C28_NewerReaderStopsAtPayload ==
  NewerReaderRead
    => /\ last.ret
       /\ tell(ser) = wire.end
       /\ \A i \in (Len(wire.writer) + 1)..Len(last.list0) :
            recs[last.rec][i] = last.list0[i]

-----------------------------------------------------------------------------
(* C29: after a successful deserializeBitField tell() is the position     *)
(* just past the whole block that serializeBitField wrote, block start +  *)
(* 16 + Cw * Ww * 32 bits, for every reader capacity Cr and reader width  *)
(* Wr, so that what was written after the block can be decoded next.      *)
C29_BlockFullyConsumed ==
  (BlockRead /\ last.ret)
    => /\ tell(ser) = wire.beg + BitFieldSizeBits + BitFieldNumBits + Cw * Ww * HalfBits
       /\ tell(ser) = wire.end

-----------------------------------------------------------------------------
\* the deserialize or deserializeDiff of the single field last.at of
\* recs[last.rec] has just returned failure
FieldReadFailed ==
  /\ pc = "read"
  /\ last.op \in {"Field.deserialize", "Field.deserializeDiff"}
  /\ ~last.ret

(* C30: when the deserialize or deserializeDiff of a single field returns *)
(* failure, the value of that field is what it was before the call, for   *)
(* every variant (Bool, Integer, Bits, String, IntegerArray), and so are  *)
(* the other fields of the record.                                        *)
C30_FailedReadKeepsField ==
  FieldReadFailed
    => /\ recs[last.rec][last.at] = last.list0[last.at]
       /\ recs[last.rec] = last.list0

=============================================================================
